---- MODULE Spec2Model ----
(***************************************************************************)
(* spek-cli: the analysis-and-render pipeline of src/spectrogram.rs        *)
(* (generate_spectrogram, compute_stft, compute_spectral_rolloff,          *)
(* render_spectrogram, create_gradient_map, hex_to_rgb) as a state machine.*)
(*                                                                         *)
(* Numbers.  f32 values are modelled by exact integers and rationals:      *)
(*   - a stop position is an integer number of hundredths (PosScale);      *)
(*   - a magnitude is an integer number of MagUnit = 1e-6;                 *)
(*   - an interpolated magnitude is a rational num/den;                    *)
(*   - a frequency is an integer number of 1/HzDen Hz.                     *)
(* Strings are sequences of characters; a character is a one-element       *)
(* token, and TwoByteChar stands for a character of two UTF-8 bytes.       *)
(***************************************************************************)
EXTENDS Integers, Sequences, FiniteSets, TLC

(* ------------------------------------------------------------------ *)
(* Bounds of the model                                                  *)
(* ------------------------------------------------------------------ *)
MaxBody == 6
MaxHashes == 2
MaxStops == 3
MaxLutSize == 5
MaxFrames == 2
MaxWidth == 2
MaxHeight == 2
MaxPackets == 3

(* ------------------------------------------------------------------ *)
(* Program constants                                                    *)
(* ------------------------------------------------------------------ *)
WindowSize == 2048
HopSize == 512
LutSize == 1024
MinFreq == 20
RolloffPercent == 85
DynamicRangeDb == 100
ProgressStep == 50

(* ------------------------------------------------------------------ *)
(* Units of the fixed-point numbers                                     *)
(* ------------------------------------------------------------------ *)
\* a stop position p stands for p / PosScale
PosScale == 10 * 10
\* a magnitude m stands for m * 1e-6; the 1e-9 added before log10 is then
\* 1 / EpsPerMag of a magnitude unit, and the energy 1e-10 is EnergyFloor
\* squared magnitude units
EpsPerMag == 10 * 10 * 10
EnergyFloor == 10 * 10
\* a frequency f stands for f / HzDen Hz
HzDen == WindowSize
\* decibels are counted in 1 / DbScale dB
DbScale == 10 * 10 * 10
\* binary logarithms carry LogBits fractional bits
LogBits == 5 + 5
FxOne == 2 ^ 14

(* ------------------------------------------------------------------ *)
(* Small helpers                                                        *)
(* ------------------------------------------------------------------ *)
Min(a, b) == IF a <= b THEN a ELSE b
Max(a, b) == IF a >= b THEN a ELSE b
Abs(a) == IF a < 0 THEN -a ELSE a

RECURSIVE SumSeq(_)
SumSeq(s) == IF s = <<>> THEN 0 ELSE Head(s) + SumSeq(Tail(s))

(* ------------------------------------------------------------------ *)
(* hex_to_rgb                                                           *)
(* ------------------------------------------------------------------ *)
TwoByteChar == "U+00E9"

HexUpper == <<"0", "1", "2", "3", "4", "5", "6", "7", "8", "9", "A", "B", "C", "D", "E", "F">>
HexLower == <<"0", "1", "2", "3", "4", "5", "6", "7", "8", "9", "a", "b", "c", "d", "e", "f">>

IsHexDigit(c) == \E v \in 1..16 : HexUpper[v] = c \/ HexLower[v] = c

DigitVal(c) == (CHOOSE v \in 1..16 : HexUpper[v] = c \/ HexLower[v] = c) - 1

\* UTF-8 width of a character, in bytes
CharLen(c) == IF c = TwoByteChar THEN 2 ELSE 1

\* str::len(): the length in bytes
RECURSIVE ByteLen(_)
ByteLen(s) == IF s = <<>> THEN 0 ELSE CharLen(Head(s)) + ByteLen(Tail(s))

\* str::is_char_boundary(n)
IsCharBoundary(s, n) == \E k \in 0..Len(s) : ByteLen(SubSeq(s, 1, k)) = n

\* &s[a..b] for byte offsets a <= b that are character boundaries
ByteSlice(s, a, b) ==
    LET from == CHOOSE k \in 0..Len(s) : ByteLen(SubSeq(s, 1, k)) = a
        to == CHOOSE k \in 0..Len(s) : ByteLen(SubSeq(s, 1, k)) = b
    IN SubSeq(s, from + 1, to)

\* str::trim_start_matches('#'): every leading '#' is removed
RECURSIVE TrimStartHash(_)
TrimStartHash(s) ==
    IF s # <<>> /\ Head(s) = "#" THEN TrimStartHash(Tail(s)) ELSE s

\* u8::from_str_radix(src, 16): ParseErr, or the value.  An optional
\* leading '+' is accepted when digits follow it; every other character
\* must be a hexadecimal digit.
ParseErr == 0 - 1

RECURSIVE HexDigitsValue(_, _)
HexDigitsValue(digits, acc) ==
    IF digits = <<>> THEN acc
    ELSE HexDigitsValue(Tail(digits), 16 * acc + DigitVal(Head(digits)))

FromStrRadix16(src) ==
    IF src = <<>> THEN ParseErr
    ELSE IF Head(src) = "+" /\ Len(src) = 1 THEN ParseErr
    ELSE LET digits == IF Head(src) = "+" THEN Tail(src) ELSE src
         IN IF \E i \in 1..Len(digits) : ~IsHexDigit(digits[i]) THEN ParseErr
            ELSE IF HexDigitsValue(digits, 0) > 255 THEN ParseErr
            ELSE HexDigitsValue(digits, 0)

\* Result::unwrap_or(0)
UnwrapOr0(r) == IF r = ParseErr THEN 0 ELSE r

\* hex_to_rgb panics when a slice bound of &hex[0..2], &hex[2..4] or
\* &hex[4..6] is not a character boundary
HexPanics(hex) ==
    LET h == TrimStartHash(hex)
    IN ByteLen(h) = 6 /\ ~(IsCharBoundary(h, 2) /\ IsCharBoundary(h, 4))

\* hex_to_rgb: the RGB triple it returns when it does not panic
hex_to_rgb(hex) ==
    LET h == TrimStartHash(hex)
    IN IF ByteLen(h) = 6 /\ ~HexPanics(hex)
       THEN <<UnwrapOr0(FromStrRadix16(ByteSlice(h, 0, 2))),
              UnwrapOr0(FromStrRadix16(ByteSlice(h, 2, 4))),
              UnwrapOr0(FromStrRadix16(ByteSlice(h, 4, 6)))>>
       ELSE <<0, 0, 0>>

(* ------------------------------------------------------------------ *)
(* Palettes (config.rs)                                                 *)
(* ------------------------------------------------------------------ *)
Stop(p, c) == [position |-> p, color |-> c]

audacity_palette ==
    << Stop(0, <<"#", "0", "0", "0", "0", "0", "0">>),
       Stop(40, <<"#", "0", "0", "0", "0", "F", "F">>),
       Stop(70, <<"#", "F", "F", "0", "0", "0", "0">>),
       Stop(100, <<"#", "F", "F", "F", "F", "F", "F">>) >>

grayscale_palette ==
    << Stop(0, <<"#", "0", "0", "0", "0", "0", "0">>),
       Stop(100, <<"#", "F", "F", "F", "F", "F", "F">>) >>

\* #[derive(Default)] for ColorConfig: Vec::default(), the empty vector
ColorConfigDefault == <<>>

magma_palette ==
    << Stop(0, <<"#", "0", "0", "0", "0", "0", "4">>),
       Stop(25, <<"#", "3", "B", "0", "F", "7", "0">>),
       Stop(50, <<"#", "8", "C", "2", "9", "8", "1">>),
       Stop(75, <<"#", "D", "E", "4", "9", "6", "8">>),
       Stop(90, <<"#", "F", "E", "9", "F", "6", "D">>),
       Stop(100, <<"#", "F", "C", "F", "D", "B", "F">>) >>

viridis_palette ==
    << Stop(0, <<"#", "4", "4", "0", "1", "5", "4">>),
       Stop(25, <<"#", "3", "B", "5", "2", "8", "B">>),
       Stop(50, <<"#", "2", "1", "9", "0", "8", "C">>),
       Stop(75, <<"#", "5", "D", "C", "8", "6", "3">>),
       Stop(100, <<"#", "F", "D", "E", "7", "2", "5">>) >>

inferno_palette ==
    << Stop(0, <<"#", "0", "0", "0", "0", "0", "4">>),
       Stop(25, <<"#", "4", "2", "0", "A", "6", "8">>),
       Stop(50, <<"#", "9", "3", "2", "6", "6", "7">>),
       Stop(75, <<"#", "D", "D", "5", "1", "3", "A">>),
       Stop(90, <<"#", "F", "C", "A", "5", "0", "A">>),
       Stop(100, <<"#", "F", "C", "F", "F", "A", "4">>) >>

\* get_palette_stops: the stops of a value of the Palette enum
get_palette_stops(palette) ==
    CASE palette = "Audacity" -> audacity_palette
      [] palette = "Magma" -> magma_palette
      [] palette = "Viridis" -> viridis_palette
      [] palette = "Inferno" -> inferno_palette
      [] palette = "Grayscale" -> grayscale_palette

\* str::to_lowercase on the letters of a name
UpperLetters == <<"A", "B", "C", "D", "E", "F", "G", "H", "I", "J", "K", "L", "M",
                  "N", "O", "P", "Q", "R", "S", "T", "U", "V", "W", "X", "Y", "Z">>
LowerLetters == <<"a", "b", "c", "d", "e", "f", "g", "h", "i", "j", "k", "l", "m",
                  "n", "o", "p", "q", "r", "s", "t", "u", "v", "w", "x", "y", "z">>

LowerChar(c) ==
    IF \E k \in 1..26 : UpperLetters[k] = c
    THEN LowerLetters[CHOOSE k \in 1..26 : UpperLetters[k] = c]
    ELSE c

ToLowercase(name) == [i \in 1..Len(name) |-> LowerChar(name[i])]

\* parse_palette: a palette name to the enum, audacity for an unknown name
parse_palette(name) ==
    LET n == ToLowercase(name)
    IN CASE n = <<"a", "u", "d", "a", "c", "i", "t", "y">> -> "Audacity"
         [] n = <<"m", "a", "g", "m", "a">> -> "Magma"
         [] n = <<"v", "i", "r", "i", "d", "i", "s">> -> "Viridis"
         [] n = <<"i", "n", "f", "e", "r", "n", "o">> -> "Inferno"
         [] n = <<"g", "r", "a", "y", "s", "c", "a", "l", "e">> -> "Grayscale"
         [] OTHER -> "Audacity"

\* default_width(), default_height(), default_palette()
default_width == 2048
default_height == 1024
default_palette == <<"a", "u", "d", "a", "c", "i", "t", "y">>

\* Config::default(): DefaultSettings::default() and ColorConfig::default()
ConfigDefault ==
    [defaults |-> [width |-> default_width, height |-> default_height,
                   log_scale |-> FALSE, palette |-> default_palette,
                   rolloff |-> FALSE, verbose |-> FALSE],
     colors |-> [stops |-> ColorConfigDefault]]

\* Option<T>: [some, val]
Some(v) == [some |-> TRUE, val |-> v]
None(v) == [some |-> FALSE, val |-> v]

\* a merge in which the config file wins
UnwrapOrTakeDefault(opt, default) == default

\* Option::unwrap_or(default)
UnwrapOr(opt, default) == IF opt.some THEN opt.val ELSE default

(* ------------------------------------------------------------------ *)
(* create_gradient_map                                                  *)
(* ------------------------------------------------------------------ *)
\* sort_by(position): a stable sort, equal positions keep their order
RECURSIVE InsertStop(_, _)
InsertStop(sorted, s) ==
    IF sorted = <<>> THEN <<s>>
    ELSE IF sorted[Len(sorted)].position <= s.position THEN Append(sorted, s)
    ELSE Append(InsertStop(SubSeq(sorted, 1, Len(sorted) - 1), s), sorted[Len(sorted)])

RECURSIVE SortStops(_)
SortStops(stops) ==
    IF stops = <<>> THEN <<>>
    ELSE InsertStop(SortStops(SubSeq(stops, 1, Len(stops) - 1)), stops[Len(stops)])

\* pos = i / (size - 1) compared with a stop position p / PosScale.
\* size = 1 gives pos = 0/0 = NaN, for which every comparison is false.
PosGe(i, size, p) == size > 1 /\ i * PosScale >= p * (size - 1)
PosLe(i, size, p) == size > 1 /\ i * PosScale <= p * (size - 1)

\* a scan that keeps the last bracketing window instead of breaking at the first
BracketLast(sorted, i, size) ==
    IF \E k \in 1..(Len(sorted) - 1) :
           PosGe(i, size, sorted[k].position) /\ PosLe(i, size, sorted[k + 1].position)
    THEN CHOOSE k \in 1..(Len(sorted) - 1) :
           /\ PosGe(i, size, sorted[k].position) /\ PosLe(i, size, sorted[k + 1].position)
           /\ \A j \in (k + 1)..(Len(sorted) - 1) :
                ~(PosGe(i, size, sorted[j].position) /\ PosLe(i, size, sorted[j + 1].position))
    ELSE 0

\* the windows(2) scan: index of the first window w with
\* w[0].position <= pos <= w[1].position, or 0 when there is none
Bracket(sorted, i, size) ==
    IF \E k \in 1..(Len(sorted) - 1) :
           PosGe(i, size, sorted[k].position) /\ PosLe(i, size, sorted[k + 1].position)
    THEN CHOOSE k \in 1..(Len(sorted) - 1) :
           /\ PosGe(i, size, sorted[k].position) /\ PosLe(i, size, sorted[k + 1].position)
           /\ \A j \in 1..(k - 1) :
                ~(PosGe(i, size, sorted[j].position) /\ PosLe(i, size, sorted[j + 1].position))
    ELSE 0

\* start_stop and end_stop of slot i: the bracketing window, or by default
\* the first and the last sorted stop
StartStop(sorted, i, size) ==
    LET k == Bracket(sorted, i, size)
    IN IF k > 0 THEN sorted[k] ELSE sorted[1]

EndStop(sorted, i, size) ==
    LET k == Bracket(sorted, i, size)
    IN IF k > 0 THEN sorted[k + 1] ELSE sorted[Len(sorted)]

\* (a * (1 - t) + b * t) as u8 with t = tn / td, td > 0: the cast
\* truncates toward zero and saturates at 0 and 255
LerpU8(a, b, tn, td) ==
    LET n == a * (td - tn) + b * tn
    IN IF n < 0 THEN 0 ELSE Min(255, n \div td)

\* One iteration of the loop over the slots: the slot's RGB triple
GradientSlot(sorted, i, size) ==
    LET s == StartStop(sorted, i, size)
        e == EndStop(sorted, i, size)
        range == e.position - s.position
        sc == hex_to_rgb(s.color)
        ec == hex_to_rgb(e.color)
        \* t = (pos - start.position) / range = tn / td
        tn == i * PosScale - s.position * (size - 1)
        td == range * (size - 1)
    IN IF range = 0 THEN sc
       ELSE IF size = 1 THEN <<0, 0, 0>>
       ELSE <<LerpU8(sc[1], ec[1], tn, td),
              LerpU8(sc[2], ec[2], tn, td),
              LerpU8(sc[3], ec[3], tn, td)>>

\* create_gradient_map panics on sorted_stops[0] when the stop list is
\* empty, and when hex_to_rgb panics on the colour of a stop it uses
GradientPanics(stops, size) ==
    LET sorted == SortStops(stops)
    IN /\ size > 0
       /\ \/ Len(sorted) = 0
          \/ /\ \E k \in 1..Len(sorted) : HexPanics(sorted[k].color)
             /\ \E i \in 0..(size - 1) :
                  \/ HexPanics(StartStop(sorted, i, size).color)
                  \/ HexPanics(EndStop(sorted, i, size).color)

\* create_gradient_map(stops, size): the LUT it returns when it does not panic
create_gradient_map(stops, size) ==
    LET sorted == SortStops(stops)
    IN IF GradientPanics(stops, size) THEN <<>>
       ELSE [i \in 0..(size - 1) |-> GradientSlot(sorted, i, size)]

(* ------------------------------------------------------------------ *)
(* render.rs: the layout of the final image                             *)
(* ------------------------------------------------------------------ *)
LEGEND_WIDTH == 60
LEGEND_PADDING == 10
\* bar_margin of draw_color_bar
BarMargin == 20

\* A u32 is <<hi, lo>> and stands for hi * 2^16 + lo.
Limb == 2 ^ 16

U32(n) == <<n \div Limb, n % Limb>>

\* a - b on u32 for a, b below 2^16: the difference modulo 2^32, and
\* whether the subtraction overflowed
U32Sub(a, b) ==
    IF a >= b THEN [value |-> U32(a - b), overflow |-> FALSE]
    ELSE [value |-> <<Limb - 1, Limb - (b - a)>>, overflow |-> TRUE]

\* bar_height = height - 2 * bar_margin
BarHeight(height) == U32Sub(height, 2 * BarMargin)

(* ------------------------------------------------------------------ *)
(* decoder.rs                                                           *)
(* ------------------------------------------------------------------ *)
\* sample_rate.unwrap_or(44100)
DefaultSampleRate == 44100

\* A decoded audio buffer is [format, planes]: planes[c][i] is buf.chan(c)[i],
\* an f32 sample counted in 1/32768, an i16 or a u8.
BufFrames(buf) == IF buf.planes = <<>> THEN 0 ELSE Len(buf.planes[1])
ChannelCount(buf) == Len(buf.planes)

\* the AudioBufferRef variants decode_file handles
SupportedFormats == {"F32", "U8", "S16", "S24", "S32"}

\* f32::from_sample, in 1/32768: an i16 is divided by 32768, a u8 is
\* centred on 128 and divided by 128
FromSample(format, v) ==
    IF format = "S16" THEN v
    ELSE IF format = "U8" THEN (v - 128) * 256
    ELSE v

\* process_buffer!: per frame, the sum over the channels divided by the
\* channel count, kept as <<sum, count>>
ProcessBuffer(buf) ==
    [i \in 1..BufFrames(buf) |->
        <<SumSeq([c \in 1..ChannelCount(buf) |-> FromSample(buf.format, buf.planes[c][i])]),
          ChannelCount(buf)>>]

\* no packet is skipped for its track
OtherTrackNever(packet, track_id) == FALSE

\* packet.track_id() != track_id
OtherTrack(packet, track_id) == packet.track # track_id

\* tracks().iter().find(|t| t.codec_params.codec != CODEC_TYPE_NULL): the
\* index of the first track with a codec, 0 when there is none
RECURSIVE FindTrack(_, _)
FindTrack(tracks, k) ==
    IF k > Len(tracks) THEN 0
    ELSE IF ~tracks[k].null THEN k ELSE FindTrack(tracks, k + 1)

(* ------------------------------------------------------------------ *)
(* Sample buffers                                                       *)
(* ------------------------------------------------------------------ *)
\* A sample buffer is [len, amp]: len samples, constant over runs of
\* BlockLen samples, run b holding the value amp[b] (in sample units).
BlockLen == HopSize

NumBlocks(len) == (len + BlockLen - 1) \div BlockLen

\* samples[j]
Sample(samples, j) == samples.amp[j \div BlockLen]

(* ------------------------------------------------------------------ *)
(* compute_stft                                                         *)
(* ------------------------------------------------------------------ *)
\* a length check that is off by one
TooShortOffByOne(len) == len < WindowSize - 1

\* samples.len() < window_size
TooShort(len) == len < WindowSize

\* frames that do not overlap
NumTimeFramesNoOverlap(len) == (len - WindowSize) \div WindowSize + 1

\* (samples.len() - window_size) / hop_size + 1
NumTimeFrames(len) == (len - WindowSize) \div HopSize + 1

\* window_size / 2
NumFreqBins == WindowSize \div 2

\* The magnitude row of a frame is sparse: SupportBins are the bins a row
\* stores, every other bin of the num_freq_bins holds 0.
SupportBins == {0, 1, 16, 64, 128, 256, 512}

\* frame[f] of a row
RowAt(row, f) == IF f \in DOMAIN row THEN row[f] ELSE 0

\* Sum of the Hann window over each quarter of the frame, in proportion
HannQuarter == <<1, 4, 4, 1>>

\* frames laid end to end
FrameSliceNoOverlap(frame_idx) ==
    [start |-> frame_idx * WindowSize, end |-> frame_idx * WindowSize + WindowSize]

\* start and end of the slice samples[start..end] of a frame
FrameSlice(frame_idx) ==
    [start |-> frame_idx * HopSize, end |-> frame_idx * HopSize + WindowSize]

\* samples[start..end], one value per quarter of the window
FrameQuarters(samples, start) ==
    [q \in 1..4 |-> Sample(samples, start + (q - 1) * (WindowSize \div 4))]

\* fft.process and norm() of the windowed frame.  The transform is the
\* library's; the model keeps what the pipeline relies on: the row is a
\* function of the frame's samples alone, a zero frame gives a zero row,
\* the windowed sum lands in bin 0 and leaks into bin 1, and steps between
\* the quarters spread over the higher bins.
FrameMags(samples, frame_idx) ==
    LET fq == FrameQuarters(samples, FrameSlice(frame_idx).start)
        dc == SumSeq([q \in 1..4 |-> HannQuarter[q] * fq[q]])
        steps == SumSeq([q \in 1..3 |-> Abs(fq[q + 1] - fq[q])])
    IN [f \in SupportBins |->
          IF f = 0 THEN Abs(dc) ELSE IF f = 1 THEN Abs(dc) \div 2 ELSE steps]

\* The slot of the collected vector that receives the result of unit i
\* when the units in done have completed: collect() of an indexed
\* parallel iterator places by index.
CollectByArrival(i, done) == Cardinality(done)

CollectIndex(i, done) == i

(* ------------------------------------------------------------------ *)
(* compute_spectral_rolloff                                             *)
(* ------------------------------------------------------------------ *)
\* sample_rate / 2, in 1/HzDen Hz
Nyquist(sample_rate) == (sample_rate * HzDen) \div 2

\* the sum of the magnitudes, not of their squares
EnergyUnsquared(row, upto) ==
    LET bins == {f \in DOMAIN row : f <= upto}
        RECURSIVE Sum(_)
        Sum(S) == IF S = {} THEN 0
                  ELSE LET f == CHOOSE g \in S : TRUE
                       IN row[f] + Sum(S \ {f})
    IN Sum(bins)

\* sum of m * m over the bins 0..upto of a frame
Energy(row, upto) ==
    LET bins == {f \in DOMAIN row : f <= upto}
        RECURSIVE Sum(_)
        Sum(S) == IF S = {} THEN 0
                  ELSE LET f == CHOOSE g \in S : TRUE
                       IN row[f] * row[f] + Sum(S \ {f})
    IN Sum(bins)

\* The scan over the bins: the first bin whose cumulative energy reaches
\* the threshold, or num_freq_bins when no bin does.  The cumulative
\* energy changes only at the bins the row stores, so the first crossing
\* is bin 0 or one of them.
RolloffBin(row) ==
    LET total == Energy(row, NumFreqBins - 1)
        Crossed(bin) == Energy(row, bin) * 100 >= total * RolloffPercent
        crossing == {bin \in (DOMAIN row) \cup {0} : Crossed(bin)}
    IN IF crossing = {} THEN NumFreqBins
       ELSE CHOOSE bin \in crossing : \A b \in crossing : bin <= b

\* the rolloff of one frame without the near-silence test
FrameRolloffNoFloor(row, sample_rate) ==
    IF RolloffBin(row) = NumFreqBins THEN Nyquist(sample_rate)
    ELSE RolloffBin(row) * (Nyquist(sample_rate) \div NumFreqBins)

\* the bin index taken as a fraction of nyquist without the division
FrameRolloffUnscaled(row, sample_rate) ==
    IF Energy(row, NumFreqBins - 1) < EnergyFloor THEN 0
    ELSE RolloffBin(row) * Nyquist(sample_rate)

\* The rolloff of one frame, in 1/HzDen Hz.  HzDen makes nyquist a
\* multiple of num_freq_bins, so (bin / num_freq_bins) * nyquist is exact.
FrameRolloff(row, sample_rate) ==
    IF Energy(row, NumFreqBins - 1) < EnergyFloor THEN 0
    ELSE IF RolloffBin(row) = NumFreqBins THEN Nyquist(sample_rate)
    ELSE RolloffBin(row) * (Nyquist(sample_rate) \div NumFreqBins)

\* a resampling that looks up the frame at the right edge of the column
ResampleRolloffRightEdge(per_frame, output_width) ==
    LET num_frames == Len(per_frame)
    IN [x \in 1..output_width |->
          per_frame[Min((x * num_frames) \div output_width, num_frames - 1) + 1]]

\* the resampling of the per-frame series to output_width columns
ResampleRolloff(per_frame, output_width) ==
    LET num_frames == Len(per_frame)
    IN [x \in 1..output_width |->
          per_frame[Min(((x - 1) * num_frames) \div output_width, num_frames - 1) + 1]]

(* ------------------------------------------------------------------ *)
(* render_spectrogram                                                   *)
(* ------------------------------------------------------------------ *)
RECURSIVE Gcd(_, _)
Gcd(a, b) == IF b = 0 THEN a ELSE Gcd(b, a % b)

\* a rational n / d in lowest terms, d > 0
Rat(n, d) == LET g == Gcd(n, d) IN IF n = 0 THEN <<0, 1>> ELSE <<n \div g, d \div g>>

RECURSIVE IPow(_, _)
IPow(b, e) == IF e = 0 THEN 1 ELSE b * IPow(b, e - 1)

\* a power of two whose h-th power exceeds n
RECURSIVE IRootTop(_, _, _)
IRootTop(n, h, r) == IF IPow(r, h) > n THEN r ELSE IRootTop(n, h, 2 * r)

\* the r with r^h <= n < (r + 1)^h, by bisection of lo..hi
RECURSIVE IRootIn(_, _, _, _)
IRootIn(n, h, lo, hi) ==
    IF hi - lo <= 1 THEN lo
    ELSE LET mid == (lo + hi) \div 2
         IN IF IPow(mid, h) <= n THEN IRootIn(n, h, mid, hi) ELSE IRootIn(n, h, lo, mid)

\* the integer part of the h-th root of n
IRoot(n, h) == IRootIn(n, h, 0, IRootTop(n, h, 1))

\* frame.iter().fold(0.0, max)
FrameMax(row) ==
    LET vals == {row[f] : f \in DOMAIN row} \cup {0}
    IN CHOOSE m \in vals : \A v \in vals : m >= v

\* The binary logarithm of a / b for a >= b > 0, with LogBits fractional
\* bits: the integer part by halving, the fraction by repeated squaring
\* of the mantissa.
RECURSIVE Log2Int(_, _)
Log2Int(a, b) == IF a < 2 * b THEN 0 ELSE 1 + Log2Int(a, 2 * b)

RECURSIVE Log2Frac(_, _)
Log2Frac(m, k) ==
    IF k = 0 THEN 0
    ELSE LET sq == (m * m) \div FxOne
         IN IF sq >= 2 * FxOne THEN IPow(2, k - 1) + Log2Frac(sq \div 2, k - 1)
            ELSE Log2Frac(sq, k - 1)

Log2Fx(a, b) ==
    LET e == Log2Int(a, b)
        \* a * 2^LogBits / (b * 2^e), without forming a * 2^LogBits when a is large
        scaled == IF e >= LogBits THEN a \div (b * IPow(2, e - LogBits))
                  ELSE (a * IPow(2, LogBits - e)) \div b
        mant == scaled * (FxOne \div IPow(2, LogBits))
    IN e * IPow(2, LogBits) + Log2Frac(mant, LogBits)

\* 20 * log10(mag / norm_factor + 1e-9) for mag = n / d, in 1/DbScale dB:
\* mag / norm_factor + 1e-9 is 1e-9 * (norm_factor * d + EpsPerMag * n)
\* / (norm_factor * d), and 20 * log10(2) is 6.0206.
Db(n, d) ==
    LET norm_factor == NumFreqBins \div 2
    IN (Log2Fx(norm_factor * d + EpsPerMag * n, norm_factor * d) * 6021) \div IPow(2, LogBits)
       - 180 * DbScale

\* max_db, min_db and db_range of a grid whose peak magnitude is global_max_mag
MaxDb(global_max_mag) == Db(global_max_mag, 1)
MinDb(global_max_mag) == MaxDb(global_max_mag) - DynamicRangeDb * DbScale
DbRange(global_max_mag) == MaxDb(global_max_mag) - MinDb(global_max_mag)

\* the index without the clamp of normalized_val to [0, 1]
ColorIdxUnclamped(db, global_max_mag) ==
    ((db - MinDb(global_max_mag)) * (LutSize - 1)) \div DbRange(global_max_mag)

\* (clamped * 1023.0) as usize for normalized_val = (db - min_db) / db_range
ColorIdx(db, global_max_mag) ==
    LET num == db - MinDb(global_max_mag)
        den == DbRange(global_max_mag)
    IN IF num <= 0 THEN 0
       ELSE IF num >= den THEN LutSize - 1
       ELSE (num * (LutSize - 1)) \div den

\* bin_pos of row y as <<floor, fraction numerator, fraction denominator>>
BinPos(y, height, sample_rate, linear) ==
    LET y_inverted == height - 1 - y
    IN IF linear
       THEN <<(y_inverted * NumFreqBins) \div height,
              (y_inverted * NumFreqBins) % height, height>>
       ELSE \* freq = min_freq * freq_ratio.powf(y_ratio), freq_ratio =
            \* max_freq / min_freq, taken as the integer part of the
            \* height-th root of freq_ratio ^ y_inverted;
            \* bin_pos = freq / max_freq * num_freq_bins
            IF sample_rate >= 2 * MinFreq
            THEN LET freq_ratio == sample_rate \div (2 * MinFreq)
                     freq == MinFreq * IRoot(IPow(freq_ratio, y_inverted), height)
                 IN <<(freq * 2 * NumFreqBins) \div sample_rate,
                      (freq * 2 * NumFreqBins) % sample_rate, sample_rate>>
            ELSE \* max_freq < min_freq: freq_ratio = 1 / inv_ratio is below 1
                 \* and freq = min_freq / inv_ratio.powf(y_ratio)
                 LET inv_ratio == (2 * MinFreq) \div sample_rate
                     root == IRoot(IPow(inv_ratio, y_inverted), height)
                 IN <<(2 * MinFreq * NumFreqBins) \div (root * sample_rate),
                      (2 * MinFreq * NumFreqBins) % (root * sample_rate),
                      root * sample_rate>>

\* t_fract taken as time_pos itself, not as its fractional part
TimeCellWholePos(x, width, num_time_frames) ==
    LET t0raw == (x * num_time_frames) \div width
    IN [t0 |-> Min(t0raw, num_time_frames - 1),
        t1 |-> Min(t0raw + 1, num_time_frames - 1),
        fract |-> x * num_time_frames]

\* t0, t1 and the numerator of t_fract (over width) of column x
TimeCell(x, width, num_time_frames) ==
    LET \* time_pos = (x / width) * num_time_frames
        t0raw == (x * num_time_frames) \div width
    IN [t0 |-> Min(t0raw, num_time_frames - 1),
        t1 |-> Min(t0raw + 1, num_time_frames - 1),
        fract |-> (x * num_time_frames) % width]

\* the bin indices without the second min
FreqCellUnclamped(bin_pos) ==
    [f0 |-> bin_pos[1], f1 |-> Min(bin_pos[1] + 1, NumFreqBins - 1)]

\* f0 and f1 of a row whose bin_pos is <<floor, numerator, denominator>>
FreqCell(bin_pos) ==
    [f0 |-> Min(bin_pos[1], NumFreqBins - 1),
     f1 |-> Min(bin_pos[1] + 1, NumFreqBins - 1)]

\* mag of pixel (x, y): the bilinear interpolation of the four neighbouring
\* magnitudes, as a fraction in lowest terms
PixelMag(magnitudes, x, y, width, height, sample_rate, linear) ==
    LET tc == TimeCell(x, width, Len(magnitudes))
        t0 == tc.t0
        t1 == tc.t1
        tfn == tc.fract
        bp == BinPos(y, height, sample_rate, linear)
        fc == FreqCell(bp)
        f0 == fc.f0
        f1 == fc.f1
        \* f_fract in lowest terms
        ff == Rat(bp[2], bp[3])
        ffn == ff[1]
        ffd == ff[2]
        m00 == RowAt(magnitudes[t0 + 1], f0)
        m01 == RowAt(magnitudes[t0 + 1], f1)
        m10 == RowAt(magnitudes[t1 + 1], f0)
        m11 == RowAt(magnitudes[t1 + 1], f1)
        \* m0 and m1 over the denominator width
        m0 == m00 * (width - tfn) + m10 * tfn
        m1 == m01 * (width - tfn) + m11 * tfn
    IN \* mag over the denominator width * ffd
       Rat(m0 * (ffd - ffn) + m1 * ffn, width * ffd)

\* color_idx of pixel (x, y): mag converted to dB and normalized
PixelIdx(magnitudes, global_max_mag, x, y, width, height, sample_rate, linear) ==
    LET mag == PixelMag(magnitudes, x, y, width, height, sample_rate, linear)
    IN ColorIdx(Db(mag[1], mag[2]), global_max_mag)

\* col_pixels of column x
ColumnPixels(magnitudes, global_max_mag, gradient, x, width, height, sample_rate, linear) ==
    [y \in 1..height |->
        gradient[PixelIdx(magnitudes, global_max_mag, x, y - 1, width, height,
                          sample_rate, linear)]]

(* ------------------------------------------------------------------ *)
(* State                                                                *)
(* ------------------------------------------------------------------ *)
VARIABLES
    hexIn,      \* hex_to_rgb: the argument
    hexOut,     \* hex_to_rgb: [done, panic, rgb]
    lutStops,   \* create_gradient_map: stops
    lutSize,    \* create_gradient_map: size
    lutOut      \* create_gradient_map: [done, panic, map]

\* the arguments of generate_spectrogram
VARIABLES
    samples,            \* [len, amp]
    sample_rate,
    width,
    height,
    stops,              \* config.colors.stops
    linear,
    quiet,
    compute_rolloff

\* one call of generate_spectrogram
VARIABLES
    pc,                 \* where the call is
    err,                \* the error returned, [kind, need]
    stft_done,          \* compute_stft: the frame units that have completed
    stft_out,           \* compute_stft: the vector collect() fills
    magnitudes,         \* stft_result.magnitudes
    stft_dims,          \* stft_result: [num_time_frames, num_freq_bins]
    rolloff_done,       \* compute_spectral_rolloff: the completed units
    rolloff_out,        \* rolloff_per_frame
    rolloff_frequencies, \* [some, series]: Option<Vec<f32>>
    reduce_done,        \* render_spectrogram: the frames reduced so far
    global_max_mag,     \* the reduction's accumulator, then its result
    columns_done,       \* render_spectrogram: the completed column units
    columns,            \* the vector of (x, col_pixels)
    img,                \* the image, img[x + 1][y + 1]
    pb,                 \* the progress bars, [stft, render] positions
    reordered           \* history: some unit completed before a unit of lower index

\* the cell indices of render_spectrogram on their own
VARIABLES
    cellArgs,   \* [sample_rate, width, height, num_time_frames, linear]
    cellOut     \* [done, cells]: cells[x + 1][y + 1] = [t0, t1, f0, f1, bin_pos]

\* main up to the call of generate_spectrogram
VARIABLES
    cli,        \* Args::parse(): the options given on the command line
    loaded,     \* load_config(): [ok, config]
    merged      \* [done, and the values main goes on with]

\* one call of prepare_final_image
VARIABLES
    finalArgs,  \* [spectrogram, font, stops]
    finalOut    \* [done, status, image, underflow, bar_height, gradient]

\* one call of load_config from main
VARIABLES
    cfgFs,      \* the file system at the config path: [path, dir, file, mkdir_ok, write_ok, read_ok]
    cfgLog,     \* history: [calls, before], the file system calls load_config has made
                \* and the file as it was before the call
    cfgOut,     \* load_config(): [done, ok, config]
    cfgMain     \* main: [done, quiet, config, warned]

\* one call of decode_file
VARIABLES
    decIn,      \* the file: [open, file_size, tracks, events, end]
    decPc,      \* where the call is: "open", "loop", "finish", "ok", "err"
    decPos,     \* the number of next_packet() calls that have returned
    decSamples, \* samples
    decOut      \* [track_id, sample_rate, bytes_read, position, duration_secs, error]

finalVars == <<finalArgs, finalOut>>
cfgVars == <<cfgFs, cfgLog, cfgOut, cfgMain>>
decVars == <<decIn, decPc, decPos, decSamples, decOut>>
ioVars == <<finalVars, cfgVars, decVars>>
hexVars == <<hexIn, hexOut>>
mainVars == <<cli, loaded, merged>>
cellVars == <<cellArgs, cellOut>>
lutVars == <<lutStops, lutSize, lutOut>>
argVars == <<samples, sample_rate, width, height, stops, linear, quiet, compute_rolloff>>
runVars == <<pc, err, stft_done, stft_out, magnitudes, stft_dims, rolloff_done, rolloff_out,
             rolloff_frequencies, reduce_done, global_max_mag, columns_done, columns,
             img, pb, reordered>>
vars == <<hexVars, lutVars, argVars, runVars, cellVars, mainVars, ioVars>>

(* ------------------------------------------------------------------ *)
(* Inputs                                                               *)
(* ------------------------------------------------------------------ *)
SeqsUpTo(S, n) == UNION {[1..k -> S] : k \in 0..n}

HexChars == {"F", "G", "+", TwoByteChar}

HexInputs ==
    {[i \in 1..k |-> "#"] \o body : k \in 0..MaxHashes, body \in SeqsUpTo(HexChars, MaxBody)}

Black == <<"#", "0", "0", "0", "0", "0", "0">>
Gray == <<"#", "8", "0", "8", "0", "8", "0">>

StopChoices == {Stop(p, c) : p \in {0, 50, 100}, c \in {Black, Gray}}

\* every stop list at the small sizes (from 2 slots: with one slot
\* LUT[0] is LUT[size-1]), the palettes of config.rs at LutSize
LutInputs ==
    {<<st, sz>> : st \in SeqsUpTo(StopChoices, MaxStops), sz \in 2..MaxLutSize}
    \cup {<<st, LutSize>> : st \in {audacity_palette, grayscale_palette, ColorConfigDefault}}

HexIdle == [done |-> FALSE, panic |-> FALSE, rgb |-> <<0, 0, 0>>]
LutIdle == [done |-> FALSE, panic |-> FALSE, map |-> <<>>]

NoError == [kind |-> "none", need |-> 0]
NoRolloff == [some |-> FALSE, series |-> <<>>]
NoBars == [stft |-> 0, render |-> 0, finished |-> {}]
NoDims == [num_time_frames |-> 0, num_freq_bins |-> 0]

NoCellArgs == [sample_rate |-> 0, width |-> 0, height |-> 0,
               num_time_frames |-> 0, linear |-> FALSE]
CellIdle == cellArgs = NoCellArgs /\ cellOut = [done |-> FALSE, cells |-> <<>>]

NotMerged ==
    [done |-> FALSE, use_log |-> FALSE, use_rolloff |-> FALSE, use_verbose |-> FALSE,
     width |-> 0, height |-> 0, palette |-> "Audacity", stops |-> <<>>, linear |-> FALSE]
NoCli ==
    [width |-> None(0), height |-> None(0), log |-> None(FALSE),
     palette |-> None("Audacity"), verbose |-> None(FALSE), rolloff |-> None(FALSE)]
MainIdle ==
    cli = NoCli /\ loaded = [ok |-> FALSE, config |-> ConfigDefault] /\ merged = NotMerged

\* an image: its dimensions, its spectrogram pixels, and whether the axes
\* and the colour bar have been drawn
Image(w, h, px, annotated) ==
    [width |-> w, height |-> h, pixels |-> px, annotated |-> annotated]

NoFinalArgs == [spectrogram |-> Image(0, 0, "", FALSE), font |-> "none", stops |-> <<>>]
NoFinalOut ==
    [done |-> FALSE, status |-> "none", image |-> Image(0, 0, "", FALSE),
     underflow |-> FALSE, bar_height |-> U32(0), gradient |-> <<>>]
FinalIdle == finalArgs = NoFinalArgs /\ finalOut = NoFinalOut

\* the text of a config file: whether it is TOML, and the tables it holds
Text(valid, defaults, colors) == [valid |-> valid, defaults |-> defaults, colors |-> colors]
NoText == Text(FALSE, None(ConfigDefault.defaults), None(<<>>))
NoFile == [exists |-> FALSE, text |-> NoText]

\* the text create_default_config writes: a [defaults] table with its six
\* keys; font_path and [colors] are commented out
DefaultText == Text(TRUE, Some(ConfigDefault.defaults), None(<<>>))

\* toml::from_str::<Config>: a missing [defaults] table is
\* DefaultSettings::default(), a missing [colors] table ColorConfig::default()
ParseConfig(text) ==
    [ok |-> text.valid,
     config |-> [defaults |-> UnwrapOr(text.defaults, ConfigDefault.defaults),
                 colors |-> [stops |-> UnwrapOr(text.colors, ColorConfigDefault)]]]

\* a default file written whatever is at the path
NeedsDefaultAlways(file) == TRUE

\* !config_path.exists()
NeedsDefault(file) == ~file.exists
NoCfgFs ==
    [path |-> FALSE, dir |-> FALSE, file |-> NoFile,
     mkdir_ok |-> FALSE, write_ok |-> FALSE, read_ok |-> FALSE]
NoCfgOut == [done |-> FALSE, ok |-> FALSE, config |-> ConfigDefault, error |-> "none"]
NoCfgMain == [done |-> FALSE, quiet |-> FALSE, config |-> ConfigDefault, warned |-> FALSE]
NoCfgLog == [calls |-> <<>>, before |-> NoFile]
CfgIdle == cfgFs = NoCfgFs /\ cfgLog = NoCfgLog /\ cfgOut = NoCfgOut /\ cfgMain = NoCfgMain

NoDecOut ==
    [track_id |-> 0, sample_rate |-> 0, bytes_read |-> 0, position |-> 0,
     duration_secs |-> <<0, 1>>, error |-> "none"]
NoDecIn ==
    [open |-> "none", file_size |-> 0, tracks |-> <<>>, events |-> <<>>, end |-> "none"]
DecIdle ==
    /\ decIn = NoDecIn
    /\ decPc = "idle" /\ decPos = 0 /\ decSamples = <<>> /\ decOut = NoDecOut

IoIdle == FinalIdle /\ CfgIdle /\ DecIdle

\* neither hex_to_rgb nor create_gradient_map is being applied on its own
PureIdle ==
    /\ hexIn = <<>> /\ hexOut = HexIdle
    /\ lutStops = <<>> /\ lutSize = 0 /\ lutOut = LutIdle

\* no call of generate_spectrogram is under way
RunIdle ==
    /\ samples = [len |-> 0, amp |-> <<>>] /\ sample_rate = 0
    /\ width = 0 /\ height = 0 /\ stops = <<>>
    /\ linear = FALSE /\ quiet = FALSE /\ compute_rolloff = FALSE
    /\ pc = "idle" /\ err = NoError
    /\ stft_done = {} /\ stft_out = <<>> /\ magnitudes = <<>> /\ stft_dims = NoDims
    /\ rolloff_done = {} /\ rolloff_out = <<>> /\ rolloff_frequencies = NoRolloff
    /\ reduce_done = {} /\ global_max_mag = 0
    /\ columns_done = {} /\ columns = <<>> /\ img = <<>> /\ pb = NoBars
    /\ reordered = FALSE

(* ------------------------------------------------------------------ *)
(* hex_to_rgb applied to a string                                       *)
(* ------------------------------------------------------------------ *)
InitHex ==
    /\ hexIn \in HexInputs
    /\ hexOut = HexIdle
    /\ lutStops = <<>> /\ lutSize = 0 /\ lutOut = LutIdle
    /\ RunIdle /\ CellIdle /\ MainIdle /\ IoIdle

HexToRgb ==
    /\ ~hexOut.done
    /\ hexOut' = [done |-> TRUE, panic |-> HexPanics(hexIn), rgb |-> hex_to_rgb(hexIn)]
    /\ UNCHANGED <<hexIn, lutVars, argVars, runVars, cellVars, mainVars, ioVars>>

NextHex == HexToRgb

SpecHex == InitHex /\ [][NextHex]_vars

(* ------------------------------------------------------------------ *)
(* create_gradient_map applied to a stop list                           *)
(* ------------------------------------------------------------------ *)
InitLut ==
    /\ \E inp \in LutInputs : lutStops = inp[1] /\ lutSize = inp[2]
    /\ lutOut = LutIdle
    /\ hexIn = <<>> /\ hexOut = HexIdle
    /\ RunIdle /\ CellIdle /\ MainIdle /\ IoIdle

CreateGradientMap ==
    /\ ~lutOut.done
    /\ lutOut' = [done |-> TRUE,
                  panic |-> GradientPanics(lutStops, lutSize),
                  map |-> create_gradient_map(lutStops, lutSize)]
    /\ UNCHANGED <<lutStops, lutSize, hexVars, argVars, runVars, cellVars, mainVars, ioVars>>

NextLut == CreateGradientMap

SpecLut == InitLut /\ [][NextLut]_vars

(* ------------------------------------------------------------------ *)
(* generate_spectrogram: one call, its parallel units interleaved       *)
(* ------------------------------------------------------------------ *)
SampleLens ==
    {0, WindowSize - 1}
    \cup {WindowSize + k * HopSize + d : k \in 0..(MaxFrames - 1), d \in {0, HopSize - 1}}

\* silence, a steady level, a faint and a loud click in the first run, a
\* rising level
SampleContents(len) ==
    { [b \in 0..(NumBlocks(len) - 1) |-> 0],
      [b \in 0..(NumBlocks(len) - 1) |-> 1],
      [b \in 0..(NumBlocks(len) - 1) |-> IF b = 0 THEN 1 ELSE 0],
      [b \in 0..(NumBlocks(len) - 1) |-> IF b = 0 THEN 20 ELSE 0],
      [b \in 0..(NumBlocks(len) - 1) |-> b] }

SampleBuffers ==
    UNION {{[len |-> n, amp |-> a] : a \in SampleContents(n)} : n \in SampleLens}

SampleRates == {2560}

Palettes == {audacity_palette, ColorConfigDefault}

Init ==
    /\ samples \in SampleBuffers
    /\ sample_rate \in SampleRates
    /\ width \in 0..MaxWidth
    /\ height \in 0..MaxHeight
    /\ stops \in Palettes
    /\ linear \in BOOLEAN
    /\ quiet \in BOOLEAN
    /\ compute_rolloff \in BOOLEAN
    /\ pc = "start" /\ err = NoError
    /\ stft_done = {} /\ stft_out = <<>> /\ magnitudes = <<>> /\ stft_dims = NoDims
    /\ rolloff_done = {} /\ rolloff_out = <<>> /\ rolloff_frequencies = NoRolloff
    /\ reduce_done = {} /\ global_max_mag = 0
    /\ columns_done = {} /\ columns = <<>> /\ img = <<>> /\ pb = NoBars
    /\ reordered = FALSE
    /\ hexIn = <<>> /\ hexOut = HexIdle
    /\ lutStops = <<>> /\ lutSize = 0 /\ lutOut = LutIdle
    /\ CellIdle /\ MainIdle /\ IoIdle

\* the frame units of compute_stft
Frames == 0..(NumTimeFrames(samples.len) - 1)

\* a join that returns as soon as one unit has completed
StftJoinedEarly == stft_done # {}

\* a join that waits for the progress bar to reach the frame count
StftJoinedWhenBarFull == pb.stft >= NumTimeFrames(samples.len)

\* collect() returns when every unit of the parallel iterator has completed
StftJoined == stft_done = Frames
RolloffJoined == rolloff_done = Frames
ReduceJoined == reduce_done = Frames
ColumnsJoined == columns_done = 0..(width - 1)

\* generate_spectrogram up to the parallel map of compute_stft: the length
\* check, then the frame count, the window, the plan and the progress bar
Start ==
    /\ pc = "start"
    /\ IF TooShort(samples.len)
       THEN /\ pc' = "failed"
            /\ err' = [kind |-> "FileTooShort", need |-> WindowSize]
            /\ UNCHANGED <<stft_out, stft_dims>>
       ELSE /\ pc' = "stft"
            /\ stft_dims' = [num_time_frames |-> NumTimeFrames(samples.len),
                             num_freq_bins |-> NumFreqBins]
            /\ stft_out' = [i \in 1..NumTimeFrames(samples.len) |-> <<>>]
            /\ UNCHANGED err
    /\ UNCHANGED <<stft_done, magnitudes, rolloff_done, rolloff_out, rolloff_frequencies,
                   reduce_done, global_max_mag, columns_done, columns, img, pb>>
    /\ UNCHANGED <<ioVars, cellVars, mainVars, hexVars, lutVars, argVars, reordered>>

\* one frame unit of compute_stft
StftFrame(frame_idx) ==
    /\ pc = "stft"
    /\ frame_idx \in Frames \ stft_done
    /\ stft_out' = [stft_out EXCEPT ![CollectIndex(frame_idx, stft_done) + 1] =
                        FrameMags(samples, frame_idx)]
    /\ stft_done' = stft_done \cup {frame_idx}
    /\ pb' = IF frame_idx % ProgressStep = 0
             THEN [pb EXCEPT !.stft = @ + ProgressStep] ELSE pb
    /\ UNCHANGED <<pc, err, magnitudes, rolloff_done, rolloff_out, rolloff_frequencies,
                   reduce_done, global_max_mag, columns_done, columns, img>>
    /\ reordered' = (reordered \/ \E j \in (Frames) \ stft_done : j < frame_idx)
    /\ UNCHANGED <<ioVars, cellVars, mainVars, hexVars, lutVars, argVars, stft_dims>>

\* compute_stft returns the collected grid; generate_spectrogram goes on to
\* the rolloff when it is requested, to the rendering otherwise
StftReturn ==
    /\ pc = "stft"
    /\ StftJoined
    /\ magnitudes' = stft_out
    /\ pb' = IF quiet THEN pb ELSE [pb EXCEPT !.finished = @ \cup {"STFT"}]
    /\ IF compute_rolloff
       THEN /\ pc' = "rolloff"
            /\ rolloff_out' = [i \in 1..NumTimeFrames(samples.len) |-> 0]
       ELSE /\ pc' = "render"
            /\ UNCHANGED rolloff_out
    /\ UNCHANGED <<err, stft_done, stft_out, rolloff_done, rolloff_frequencies,
                   reduce_done, global_max_mag, columns_done, columns, img>>
    /\ UNCHANGED <<ioVars, cellVars, mainVars, hexVars, lutVars, argVars, reordered, stft_dims>>

\* one frame unit of compute_spectral_rolloff
RolloffFrame(frame_idx) ==
    /\ pc = "rolloff"
    /\ frame_idx \in Frames \ rolloff_done
    /\ rolloff_out' = [rolloff_out EXCEPT ![CollectIndex(frame_idx, rolloff_done) + 1] =
                           FrameRolloff(magnitudes[frame_idx + 1], sample_rate)]
    /\ rolloff_done' = rolloff_done \cup {frame_idx}
    /\ UNCHANGED <<pc, err, stft_done, stft_out, magnitudes, rolloff_frequencies,
                   reduce_done, global_max_mag, columns_done, columns, img, pb>>
    /\ reordered' = (reordered \/ \E j \in (Frames) \ rolloff_done : j < frame_idx)
    /\ UNCHANGED <<ioVars, cellVars, mainVars, hexVars, lutVars, argVars, stft_dims>>

\* compute_spectral_rolloff resamples the per-frame series and returns
RolloffReturn ==
    /\ pc = "rolloff"
    /\ RolloffJoined
    /\ rolloff_frequencies' = [some |-> TRUE, series |-> ResampleRolloff(rolloff_out, width)]
    /\ pc' = "render"
    /\ UNCHANGED <<err, stft_done, stft_out, magnitudes, rolloff_done, rolloff_out,
                   reduce_done, global_max_mag, columns_done, columns, img, pb>>
    /\ UNCHANGED <<ioVars, cellVars, mainVars, hexVars, lutVars, argVars, reordered, stft_dims>>

\* render_spectrogram up to the reduction: the blank image, the gradient
\* LUT (which panics on an empty stop list), the progress bar
RenderBegin ==
    /\ pc = "render"
    /\ img' = [x \in 1..width |-> [y \in 1..height |-> <<0, 0, 0>>]]
    /\ pc' = IF GradientPanics(stops, LutSize) THEN "panicked" ELSE "reduce"
    /\ UNCHANGED <<err, stft_done, stft_out, magnitudes, rolloff_done, rolloff_out,
                   rolloff_frequencies, reduce_done, global_max_mag, columns_done,
                   columns, pb>>
    /\ UNCHANGED <<ioVars, cellVars, mainVars, hexVars, lutVars, argVars, reordered, stft_dims>>

\* one step of the parallel reduction to the global peak magnitude
ReduceFrame(frame_idx) ==
    /\ pc = "reduce"
    /\ frame_idx \in Frames \ reduce_done
    /\ global_max_mag' = Max(global_max_mag, FrameMax(magnitudes[frame_idx + 1]))
    /\ reduce_done' = reduce_done \cup {frame_idx}
    /\ UNCHANGED <<pc, err, stft_done, stft_out, magnitudes, rolloff_done, rolloff_out,
                   rolloff_frequencies, columns_done, columns, img, pb>>
    /\ reordered' = (reordered \/ \E j \in (Frames) \ reduce_done : j < frame_idx)
    /\ UNCHANGED <<ioVars, cellVars, mainVars, hexVars, lutVars, argVars, stft_dims>>

\* the reduction returns; the dB window and the loop constants are set
Normalize ==
    /\ pc = "reduce"
    /\ ReduceJoined
    /\ pc' = "columns"
    /\ columns' = [i \in 1..width |-> [x |-> 0, col_pixels |-> <<>>]]
    /\ UNCHANGED <<err, stft_done, stft_out, magnitudes, rolloff_done, rolloff_out,
                   rolloff_frequencies, reduce_done, global_max_mag, columns_done, img, pb>>
    /\ UNCHANGED <<ioVars, cellVars, mainVars, hexVars, lutVars, argVars, reordered, stft_dims>>

\* one column unit of render_spectrogram
Column(x) ==
    /\ pc = "columns"
    /\ x \in (0..(width - 1)) \ columns_done
    /\ columns' = [columns EXCEPT ![CollectIndex(x, columns_done) + 1] =
                      [x |-> x,
                       col_pixels |-> ColumnPixels(magnitudes, global_max_mag,
                                          create_gradient_map(stops, LutSize),
                                          x, width, height, sample_rate, linear)]]
    /\ columns_done' = columns_done \cup {x}
    /\ UNCHANGED <<pc, err, stft_done, stft_out, magnitudes, rolloff_done, rolloff_out,
                   rolloff_frequencies, reduce_done, global_max_mag, img, pb>>
    /\ reordered' = (reordered \/ \E j \in (0..(width - 1)) \ columns_done : j < x)
    /\ UNCHANGED <<ioVars, cellVars, mainVars, hexVars, lutVars, argVars, stft_dims>>

\* put_pixel(x, y, pixel) for every pixel of every collected column
PutColumns(image, cols) ==
    [x \in 1..Len(image) |->
        IF \E k \in 1..Len(cols) : cols[k].x = x - 1
        THEN LET k == CHOOSE j \in 1..Len(cols) :
                        cols[j].x = x - 1 /\ \A l \in (j + 1)..Len(cols) : cols[l].x # x - 1
             IN [y \in 1..Len(image[x]) |-> cols[k].col_pixels[y]]
        ELSE image[x]]

\* the number of put_pixel calls the assemble loop makes on pixel (x, y)
PutCount(cols, x, y) ==
    Cardinality({k \in 1..Len(cols) : cols[k].x = x /\ y < Len(cols[k].col_pixels)})

\* the image is assembled from the columns; render_spectrogram and then
\* generate_spectrogram return Ok
Assemble ==
    /\ pc = "columns"
    /\ ColumnsJoined
    /\ img' = PutColumns(img, columns)
    /\ pb' = [pb EXCEPT !.render = @ + Len(columns),
                        !.finished = IF quiet THEN @ ELSE @ \cup {"Render"}]
    /\ pc' = "done"
    /\ UNCHANGED <<err, stft_done, stft_out, magnitudes, rolloff_done, rolloff_out,
                   rolloff_frequencies, reduce_done, global_max_mag, columns_done, columns>>
    /\ UNCHANGED <<ioVars, cellVars, mainVars, hexVars, lutVars, argVars, reordered, stft_dims>>

Next ==
    \/ Start
    \/ \E i \in Frames : StftFrame(i)
    \/ StftReturn
    \/ \E i \in Frames : RolloffFrame(i)
    \/ RolloffReturn
    \/ RenderBegin
    \/ \E i \in Frames : ReduceFrame(i)
    \/ Normalize
    \/ \E x \in 0..(MaxWidth - 1) : Column(x)
    \/ Assemble

Spec == Init /\ [][Next]_vars

\* the same call, under which the claim about its progress bars is checked
SpecProgress == Init /\ [][Next]_vars

(* ------------------------------------------------------------------ *)
(* generate_spectrogram without the rolloff, on loud buffers            *)
(* ------------------------------------------------------------------ *)
\* silence, a steady level of 0.006 and a click of 0.06 in the first run:
\* the peak is then more than 100 dB above the 1e-9 added before log10
LoudContents(len) ==
    { [b \in 0..(NumBlocks(len) - 1) |-> 0],
      [b \in 0..(NumBlocks(len) - 1) |-> 6000],
      [b \in 0..(NumBlocks(len) - 1) |-> IF b = 0 THEN 60000 ELSE 0] }

LoudBuffers ==
    UNION {{[len |-> n, amp |-> a] : a \in LoudContents(n)} : n \in SampleLens}

\* a rate whose 20 Hz lies on bin 16, and one whose 20 Hz lies between
\* bin 0 and bin 1
RenderRates == {2560, 163840}

InitRender ==
    /\ samples \in LoudBuffers
    /\ sample_rate \in RenderRates
    /\ width \in 0..(MaxWidth + 1)
    /\ height \in 0..MaxHeight
    /\ stops = audacity_palette
    /\ linear \in BOOLEAN
    /\ quiet = FALSE
    /\ compute_rolloff = FALSE
    /\ pc = "start" /\ err = NoError
    /\ stft_done = {} /\ stft_out = <<>> /\ magnitudes = <<>> /\ stft_dims = NoDims
    /\ rolloff_done = {} /\ rolloff_out = <<>> /\ rolloff_frequencies = NoRolloff
    /\ reduce_done = {} /\ global_max_mag = 0
    /\ columns_done = {} /\ columns = <<>> /\ img = <<>> /\ pb = NoBars
    /\ reordered = FALSE
    /\ hexIn = <<>> /\ hexOut = HexIdle
    /\ lutStops = <<>> /\ lutSize = 0 /\ lutOut = LutIdle
    /\ CellIdle /\ MainIdle /\ IoIdle

\* the steps of a call with compute_rolloff = false
NextRender ==
    \/ Start
    \/ \E i \in Frames : StftFrame(i)
    \/ StftReturn
    \/ RenderBegin
    \/ \E i \in Frames : ReduceFrame(i)
    \/ Normalize
    \/ \E x \in 0..MaxWidth : Column(x)
    \/ Assemble

SpecRender == InitRender /\ [][NextRender]_vars

\* a call followed up to the return of compute_stft
InitStft ==
    /\ samples \in SampleBuffers
    /\ sample_rate \in SampleRates
    /\ width = 1 /\ height = 1
    /\ stops = audacity_palette
    /\ linear = FALSE
    /\ quiet \in BOOLEAN
    /\ compute_rolloff \in BOOLEAN
    /\ pc = "start" /\ err = NoError
    /\ stft_done = {} /\ stft_out = <<>> /\ magnitudes = <<>> /\ stft_dims = NoDims
    /\ rolloff_done = {} /\ rolloff_out = <<>> /\ rolloff_frequencies = NoRolloff
    /\ reduce_done = {} /\ global_max_mag = 0
    /\ columns_done = {} /\ columns = <<>> /\ img = <<>> /\ pb = NoBars
    /\ reordered = FALSE
    /\ hexIn = <<>> /\ hexOut = HexIdle
    /\ lutStops = <<>> /\ lutSize = 0 /\ lutOut = LutIdle
    /\ CellIdle /\ MainIdle /\ IoIdle

NextStft ==
    \/ Start
    \/ \E i \in Frames : StftFrame(i)
    \/ StftReturn

SpecStft == InitStft /\ [][NextStft]_vars

(* ------------------------------------------------------------------ *)
(* The cell indices of render_spectrogram for every pixel of an image   *)
(* ------------------------------------------------------------------ *)
\* sample rates below, at and above 2 * min_freq
CellRates == {10, 20, 40, 2560}

InitCells ==
    /\ cellArgs \in [sample_rate : CellRates, width : 0..MaxWidth, height : 0..MaxHeight,
                      num_time_frames : 1..MaxFrames, linear : BOOLEAN]
    /\ cellOut = [done |-> FALSE, cells |-> <<>>]
    /\ hexIn = <<>> /\ hexOut = HexIdle
    /\ lutStops = <<>> /\ lutSize = 0 /\ lutOut = LutIdle
    /\ RunIdle /\ MainIdle /\ IoIdle

\* the indices the column units compute for every pixel (x, y)
PixelCells ==
    /\ ~cellOut.done
    /\ cellOut' =
         [done |-> TRUE,
          cells |->
            [x \in 1..cellArgs.width |->
               [y \in 1..cellArgs.height |->
                  LET tc == TimeCell(x - 1, cellArgs.width, cellArgs.num_time_frames)
                      bp == BinPos(y - 1, cellArgs.height, cellArgs.sample_rate,
                                   cellArgs.linear)
                      fc == FreqCell(bp)
                  IN [t0 |-> tc.t0, t1 |-> tc.t1, f0 |-> fc.f0, f1 |-> fc.f1,
                      bin_pos |-> bp]]]]
    /\ UNCHANGED <<cellArgs, hexVars, lutVars, argVars, runVars, mainVars, ioVars>>

NextCells == PixelCells

SpecCells == InitCells /\ [][NextCells]_vars

(* ------------------------------------------------------------------ *)
(* main: the command line merged with the config file                   *)
(* ------------------------------------------------------------------ *)
\* a gradient of the user's own under [colors] stops
CustomStops == <<Stop(0, Black), Stop(100, Gray)>>

ConfigNames == {<<"a", "u", "d", "a", "c", "i", "t", "y">>, <<"I", "n", "f", "e", "r", "n", "o">>, <<"G", "R", "A", "Y", "S", "C", "A", "L", "E">>, <<"g", "r", "a", "y">>}

\* the configs toml::from_str can return.  A file without [colors] gets
\* ColorConfig::default(), one with [colors] and no stops key gets
\* default_color_stops().
ConfigFiles ==
    [defaults : [width : {default_width, 2}, height : {default_height, 3},
                 log_scale : BOOLEAN, palette : ConfigNames,
                 rolloff : BOOLEAN, verbose : BOOLEAN],
     colors : [stops : {ColorConfigDefault, audacity_palette, CustomStops}]]

OptBool == {None(FALSE), Some(FALSE), Some(TRUE)}

InitMain ==
    /\ cli \in [width : {None(0), Some(1)}, height : {None(0), Some(1)},
                 log : OptBool,
                 palette : {None("Audacity"), Some("Audacity"), Some("Inferno")},
                 verbose : OptBool, rolloff : OptBool]
    /\ \/ loaded \in [ok : {TRUE}, config : ConfigFiles]
       \/ loaded = [ok |-> FALSE, config |-> ConfigDefault]
    /\ merged = NotMerged
    /\ hexIn = <<>> /\ hexOut = HexIdle
    /\ lutStops = <<>> /\ lutSize = 0 /\ lutOut = LutIdle
    /\ RunIdle /\ CellIdle /\ IoIdle

\* main from load_config to the palette: a config that failed to load is
\* replaced by Config::default(), the options are merged, and the stops
\* of the chosen palette are stored in config.colors.stops
MainMerge ==
    /\ ~merged.done
    /\ LET config == IF loaded.ok THEN loaded.config ELSE ConfigDefault
           use_log == UnwrapOr(cli.log, config.defaults.log_scale)
           use_rolloff == UnwrapOr(cli.rolloff, config.defaults.rolloff)
           use_verbose == UnwrapOr(cli.verbose, config.defaults.verbose)
           w == UnwrapOr(cli.width, config.defaults.width)
           h == UnwrapOr(cli.height, config.defaults.height)
           palette == UnwrapOr(cli.palette, parse_palette(config.defaults.palette))
       IN merged' = [done |-> TRUE, use_log |-> use_log, use_rolloff |-> use_rolloff,
                     use_verbose |-> use_verbose, width |-> w, height |-> h,
                     palette |-> palette, stops |-> get_palette_stops(palette),
                     linear |-> ~use_log]
    /\ UNCHANGED <<cli, loaded, hexVars, lutVars, argVars, runVars, cellVars, ioVars>>

NextMain == MainMerge

SpecMain == InitMain /\ [][NextMain]_vars

(* ------------------------------------------------------------------ *)
(* main's call of load_config                                           *)
(* ------------------------------------------------------------------ *)
\* a file of the user's own, an empty file, and one that is not TOML
ConfigTexts ==
    { DefaultText,
      Text(TRUE, Some([width |-> 2, height |-> 3, log_scale |-> TRUE,
                       palette |-> <<"g", "r", "a", "y">>, rolloff |-> TRUE,
                       verbose |-> FALSE]), Some(CustomStops)),
      Text(TRUE, None(ConfigDefault.defaults), None(<<>>)),
      NoText }

\* the file systems load_config can meet: a file lies in a directory that
\* exists, and without a config path nothing is looked at
ConfigFileSystems ==
    { f \in [path : BOOLEAN, dir : BOOLEAN,
              file : {NoFile} \cup {[exists |-> TRUE, text |-> t] : t \in ConfigTexts},
              mkdir_ok : BOOLEAN, write_ok : BOOLEAN, read_ok : BOOLEAN] :
        /\ f.file.exists => f.dir
        /\ ~f.path => f = NoCfgFs }

InitConfig ==
    /\ cfgFs \in ConfigFileSystems
    /\ cfgLog = [calls |-> <<>>, before |-> cfgFs.file]
    /\ cfgOut = NoCfgOut
    /\ cfgMain \in {[NoCfgMain EXCEPT !.quiet = q] : q \in BOOLEAN}
    /\ FinalIdle /\ DecIdle /\ PureIdle /\ RunIdle /\ CellIdle /\ MainIdle

CfgErr(e) == [done |-> TRUE, ok |-> FALSE, config |-> ConfigDefault, error |-> e]

\* load_config
LoadConfig ==
    /\ ~cfgOut.done
    /\ LET need_dir == ~cfgFs.dir
           fs1 == IF need_dir /\ cfgFs.mkdir_ok THEN [cfgFs EXCEPT !.dir = TRUE] ELSE cfgFs
           calls1 == IF need_dir THEN <<"create_dir_all">> ELSE <<>>
           need_file == NeedsDefault(fs1.file)
           fs2 == IF need_file /\ fs1.write_ok
                  THEN [fs1 EXCEPT !.file = [exists |-> TRUE, text |-> DefaultText]]
                  ELSE fs1
           calls2 == IF need_file THEN Append(calls1, "write") ELSE calls1
           calls3 == Append(calls2, "read_to_string")
           parsed == ParseConfig(fs2.file.text)
       IN IF ~cfgFs.path
          THEN \* get_config_path() is None
               /\ cfgOut' = [done |-> TRUE, ok |-> TRUE, config |-> ConfigDefault,
                             error |-> "none"]
               /\ UNCHANGED <<cfgFs, cfgLog>>
          ELSE IF need_dir /\ ~cfgFs.mkdir_ok
          THEN /\ cfgOut' = CfgErr("Failed to create config directory")
               /\ cfgLog' = [cfgLog EXCEPT !.calls = calls1]
               /\ UNCHANGED cfgFs
          ELSE IF need_file /\ ~fs1.write_ok
          THEN /\ cfgOut' = CfgErr("Failed to write default config")
               /\ cfgLog' = [cfgLog EXCEPT !.calls = calls2]
               /\ cfgFs' = fs1
          ELSE IF ~fs2.read_ok
          THEN /\ cfgOut' = CfgErr("Failed to read config file")
               /\ cfgLog' = [cfgLog EXCEPT !.calls = calls3]
               /\ cfgFs' = fs2
          ELSE /\ cfgOut' = IF parsed.ok
                            THEN [done |-> TRUE, ok |-> TRUE, config |-> parsed.config,
                                  error |-> "none"]
                            ELSE CfgErr("Failed to parse config file")
               /\ cfgLog' = [cfgLog EXCEPT !.calls = calls3]
               /\ cfgFs' = fs2
    /\ UNCHANGED <<cfgMain, finalVars, decVars, hexVars, lutVars, argVars, runVars,
                   cellVars, mainVars>>

\* main: unwrap_or_else on the result of load_config
MainConfig ==
    /\ cfgOut.done /\ ~cfgMain.done
    /\ cfgMain' = [cfgMain EXCEPT !.done = TRUE,
                                 !.config = IF cfgOut.ok THEN cfgOut.config ELSE ConfigDefault,
                                 !.warned = ~cfgOut.ok /\ ~cfgMain.quiet]
    /\ UNCHANGED <<cfgFs, cfgLog, cfgOut, finalVars, decVars, hexVars, lutVars, argVars,
                   runVars, cellVars, mainVars>>

NextConfig == LoadConfig \/ MainConfig

SpecConfig == InitConfig /\ [][NextConfig]_vars

(* ------------------------------------------------------------------ *)
(* decode_file: one call                                                *)
(* ------------------------------------------------------------------ *)
NoBuf == [format |-> "none", planes |-> <<>>]

\* what next_packet() delivers: a packet of a track, with what
\* decoder.decode() makes of it, or the ResetRequired error
Packet(track, decode, buf) ==
    [kind |-> "packet", track |-> track, decode |-> decode, buf |-> buf, bytes |-> 4]
ResetRequired == [kind |-> "reset", track |-> 0, decode |-> "none", buf |-> NoBuf, bytes |-> 0]

MonoF32 == [format |-> "F32", planes |-> << <<4, 8>> >>]
StereoS16 == [format |-> "S16", planes |-> << <<2>>, <<6>> >>]
StereoU8 == [format |-> "U8", planes |-> << <<128, 130>>, <<126, 134>> >>]
MonoF64 == [format |-> "F64", planes |-> << <<1>> >>]

DecEvents ==
    { Packet(0, "ok", MonoF32), Packet(0, "ok", StereoS16), Packet(0, "ok", MonoF64),
      Packet(0, "DecodeError", NoBuf), Packet(0, "IoError", NoBuf),
      Packet(1, "ok", StereoU8), Packet(1, "ok", StereoS16),
      Packet(1, "DecodeError", NoBuf),
      ResetRequired }

Track(id, null, rate) == [id |-> id, null |-> null, sample_rate |-> rate]

\* one audio track; a track without a codec before the audio track, which
\* does not state its sample rate; no track with a codec
TrackLists ==
    { <<Track(0, FALSE, Some(2))>>,
      <<Track(0, TRUE, None(0)), Track(1, FALSE, None(0))>>,
      <<Track(0, TRUE, None(0))>> }

\* the error next_packet() returns once the packets are exhausted
ReaderEnds == {"UnexpectedEof", "IoError"}

DecFiles ==
    { f \in [open : {"ok", "failed to open audio file", "unsupported format",
                      "unsupported codec"},
              file_size : {6}, tracks : TrackLists,
              events : SeqsUpTo(DecEvents, MaxPackets), end : ReaderEnds] :
        (f.open # "ok" \/ FindTrack(f.tracks, 1) = 0) =>
            (f.events = <<>> /\ f.end = "UnexpectedEof") }

InitDecode ==
    /\ decIn \in DecFiles
    /\ decPc = "open" /\ decPos = 0 /\ decSamples = <<>> /\ decOut = NoDecOut
    /\ FinalIdle /\ CfgIdle /\ PureIdle /\ RunIdle /\ CellIdle /\ MainIdle

\* decode_file up to the loop: the file is opened and probed, the first
\* track with a codec is selected and its decoder made
DecodeOpen ==
    /\ decPc = "open"
    /\ LET k == FindTrack(decIn.tracks, 1)
       IN IF decIn.open \in {"failed to open audio file", "unsupported format"}
          THEN decPc' = "err" /\ decOut' = [decOut EXCEPT !.error = decIn.open]
          ELSE IF k = 0
          THEN decPc' = "err"
               /\ decOut' = [decOut EXCEPT !.error = "no supported audio tracks found"]
          ELSE IF decIn.open = "unsupported codec"
          THEN decPc' = "err" /\ decOut' = [decOut EXCEPT !.error = decIn.open]
          ELSE decPc' = "loop"
               /\ decOut' = [decOut EXCEPT
                                !.track_id = decIn.tracks[k].id,
                                !.sample_rate = UnwrapOr(decIn.tracks[k].sample_rate,
                                                         DefaultSampleRate)]
    /\ UNCHANGED <<decIn, decPos, decSamples, finalVars, cfgVars, hexVars, lutVars,
                   argVars, runVars, cellVars, mainVars>>

\* one iteration of the loop: next_packet(), the track filter, decode()
\* and process_buffer!
DecodeNext ==
    /\ decPc = "loop"
    /\ IF decPos = Len(decIn.events)
       THEN \* the reader has no more packets and returns its error
            /\ decPc' = IF decIn.end = "UnexpectedEof" THEN "finish" ELSE "err"
            /\ decOut' = IF decIn.end = "UnexpectedEof" THEN decOut
                         ELSE [decOut EXCEPT !.error = decIn.end]
            /\ UNCHANGED <<decPos, decSamples>>
       ELSE LET packet == decIn.events[decPos + 1]
                read == decOut.bytes_read + packet.bytes
                counted == [decOut EXCEPT !.bytes_read = read,
                                          !.position = Min(read, decIn.file_size)]
            IN /\ decPos' = decPos + 1
               /\ IF packet.kind = "reset"
                  THEN UNCHANGED <<decPc, decOut, decSamples>>
                  ELSE IF OtherTrack(packet, decOut.track_id)
                  THEN decOut' = counted /\ UNCHANGED <<decPc, decSamples>>
                  ELSE IF packet.decode = "DecodeError"
                  THEN decOut' = counted /\ UNCHANGED <<decPc, decSamples>>
                  ELSE IF packet.decode # "ok"
                  THEN /\ decOut' = [counted EXCEPT !.error = packet.decode]
                       /\ decPc' = "err" /\ UNCHANGED decSamples
                  ELSE IF packet.buf.format \notin SupportedFormats
                  THEN /\ decOut' = [counted EXCEPT !.error = "unsupported sample format"]
                       /\ decPc' = "err" /\ UNCHANGED decSamples
                  ELSE /\ decOut' = counted
                       /\ decSamples' = decSamples \o ProcessBuffer(packet.buf)
                       /\ UNCHANGED decPc
    /\ UNCHANGED <<decIn, finalVars, cfgVars, hexVars, lutVars, argVars, runVars,
                   cellVars, mainVars>>

\* after the loop: the duration, and Ok(AudioData)
DecodeFinish ==
    /\ decPc = "finish"
    /\ decPc' = "ok"
    /\ decOut' = [decOut EXCEPT !.duration_secs = <<Len(decSamples), decOut.sample_rate>>]
    /\ UNCHANGED <<decIn, decPos, decSamples, finalVars, cfgVars, hexVars, lutVars,
                   argVars, runVars, cellVars, mainVars>>

NextDecode == DecodeOpen \/ DecodeNext \/ DecodeFinish

SpecDecode == InitDecode /\ [][NextDecode]_vars

(* ------------------------------------------------------------------ *)
(* prepare_final_image: one call                                        *)
(* ------------------------------------------------------------------ *)
\* heights below, at and above 2 * bar_margin, and the default size
FinalHeights == {1, 2, 2 * BarMargin - 1, 2 * BarMargin, 2 * BarMargin + 1,
                 2 * BarMargin + 2, default_height}
FinalWidths == {1, 2, default_width}

\* load_font: a font loaded, none found (or not a font), or the file found
\* could not be read
Fonts == {"some", "none", "unreadable"}

InitFinal ==
    /\ finalArgs \in [spectrogram : {Image(w, h, px, FALSE) :
                                        w \in FinalWidths, h \in FinalHeights,
                                        px \in {"silence", "tone"}},
                        font : Fonts,
                        stops : {audacity_palette, grayscale_palette}]
    /\ finalOut = NoFinalOut
    /\ CfgIdle /\ DecIdle /\ PureIdle /\ RunIdle /\ CellIdle /\ MainIdle

\* prepare_final_image.  bar_height is computed on u32: when height is
\* below 2 * bar_margin the subtraction panics in a build with overflow
\* checks and wraps in one without, and draw_color_bar then goes on with a
\* gradient of 2^32 - (40 - height) entries.
PrepareFinalImage ==
    /\ ~finalOut.done
    /\ \E overflow_checks \in BOOLEAN :
         LET spectrogram == finalArgs.spectrogram
             total_width == spectrogram.width + LEGEND_WIDTH + LEGEND_PADDING
             final == Image(total_width, spectrogram.height, spectrogram.pixels, TRUE)
             bar == BarHeight(spectrogram.height)
         IN finalOut' =
              IF finalArgs.font = "unreadable"
              THEN [NoFinalOut EXCEPT !.done = TRUE, !.status = "err"]
              ELSE IF finalArgs.font = "none"
              THEN [NoFinalOut EXCEPT !.done = TRUE, !.status = "ok", !.image = spectrogram]
              ELSE IF bar.overflow /\ overflow_checks
              THEN [NoFinalOut EXCEPT !.done = TRUE, !.status = "panic", !.underflow = TRUE]
              ELSE IF bar.overflow
              THEN [NoFinalOut EXCEPT !.done = TRUE, !.status = "wrapped", !.image = final,
                                      !.underflow = TRUE, !.bar_height = bar.value]
              ELSE IF GradientPanics(finalArgs.stops, bar.value[2])
              THEN [NoFinalOut EXCEPT !.done = TRUE, !.status = "panic",
                                      !.bar_height = bar.value]
              ELSE [NoFinalOut EXCEPT !.done = TRUE, !.status = "ok", !.image = final,
                                      !.bar_height = bar.value,
                                      !.gradient = create_gradient_map(finalArgs.stops,
                                                                       bar.value[2])]
    /\ UNCHANGED <<finalArgs, cfgVars, decVars, hexVars, lutVars, argVars, runVars,
                   cellVars, mainVars>>

NextFinal == PrepareFinalImage

SpecFinal == InitFinal /\ [][NextFinal]_vars

(* ------------------------------------------------------------------ *)
(* Properties                                                           *)
(* ------------------------------------------------------------------ *)
\* generate_spectrogram has returned, with Ok or with Err
Returned == pc \in {"done", "failed"}

AllZero == \A b \in DOMAIN samples.amp : samples.amp[b] = 0

\* the gradient LUT render_spectrogram builds
Gradient == create_gradient_map(stops, LutSize)

\* C1: a call with width = 0 or height = 0 and at least 2048 samples
\* returns the InvalidDimensions error, never an image.
C1_ZeroDimensionRejected ==
    (Returned /\ samples.len >= 2048 /\ (width = 0 \/ height = 0))
        => (pc = "failed" /\ err.kind = "InvalidDimensions")

\* C2: with fewer than 2048 samples the call fails before any computation:
\* it only ever is at its start or failed, no frame, rolloff value, peak or
\* column has been computed, and the error names the minimum count 2048.
C2_ShortInputFailsFast ==
    samples.len < 2048 =>
        /\ pc \in {"start", "failed"}
        /\ stft_done = {} /\ stft_out = <<>> /\ magnitudes = <<>>
        /\ rolloff_done = {} /\ rolloff_out = <<>> /\ rolloff_frequencies = NoRolloff
        /\ reduce_done = {} /\ columns_done = {} /\ columns = <<>> /\ img = <<>>
        /\ pc = "failed" => err = [kind |-> "FileTooShort", need |-> 2048]

C2_Witness ==
    pc = "failed" /\ samples.len = 2047 /\ err.need = 2048

\* the results of a sequential execution in index order
SeqMagnitudes == [i \in 1..NumTimeFrames(samples.len) |-> FrameMags(samples, i - 1)]

SeqRolloff ==
    ResampleRolloff([i \in 1..NumTimeFrames(samples.len) |->
                        FrameRolloff(SeqMagnitudes[i], sample_rate)], width)

RECURSIVE SeqPeak(_)
SeqPeak(n) == IF n = 0 THEN 0 ELSE Max(SeqPeak(n - 1), FrameMax(SeqMagnitudes[n]))

SeqImage ==
    [x \in 1..width |->
        ColumnPixels(SeqMagnitudes, SeqPeak(NumTimeFrames(samples.len)), Gradient,
                     x - 1, width, height, sample_rate, linear)]

\* C3: whatever the order in which the frame, rolloff, reduction and column
\* units complete, the grid, the rolloff series and the image are those of
\* the sequential execution in index order.
C3_OrderIndependent ==
    /\ pc \in {"rolloff", "render", "reduce", "columns", "done"} => magnitudes = SeqMagnitudes
    /\ (pc \in {"render", "reduce", "columns", "done"} /\ compute_rolloff)
           => rolloff_frequencies = [some |-> TRUE, series |-> SeqRolloff]
    /\ pc = "done" => img = SeqImage

C3_Witness ==
    /\ pc = "done" /\ reordered /\ compute_rolloff
    /\ Len(magnitudes) >= 2 /\ magnitudes[1] # magnitudes[2]
    /\ width >= 2 /\ height >= 1 /\ img[1] # img[2]

\* C4: for an all-zero buffer of more than 2048 samples every pixel of the
\* returned image is LUT[0].
C4_SilenceIsLutZero ==
    (pc = "done" /\ AllZero /\ samples.len > 2048)
        => \A x \in 1..width : \A y \in 1..height : img[x][y] = Gradient[0]

\* C5: a frame whose total energy is below 1e-10 gets the rolloff 0 Hz; for
\* an all-zero buffer of more than 2048 samples with rolloff enabled the
\* series holds 0 Hz for every column; and the call fails for no other
\* reason than a buffer shorter than the window.
C5_SilenceRolloffZero ==
    /\ \A i \in rolloff_done :
          Energy(magnitudes[i + 1], NumFreqBins - 1) < EnergyFloor => rolloff_out[i + 1] = 0
    /\ (pc \in {"render", "reduce", "columns", "done"} /\ compute_rolloff
          /\ AllZero /\ samples.len > 2048)
         => /\ rolloff_frequencies.some
            /\ Len(rolloff_frequencies.series) = width
            /\ \A x \in 1..width : rolloff_frequencies.series[x] = 0
    /\ pc = "failed" => samples.len < 2048

C5_Witness ==
    /\ pc = "done" /\ compute_rolloff /\ AllZero /\ samples.len > 2048 /\ width >= 2
    /\ \A x \in 1..width : rolloff_frequencies.series[x] = 0

\* C6: with an empty stop list the call does not fail; the gradient is that
\* of the built-in 4-stop palette.
C6_EmptyPaletteSubstituted ==
    stops = <<>> =>
        /\ pc # "panicked"
        /\ (pc = "done" /\ width > 0 /\ height > 0) =>
               \E i \in 0..(LutSize - 1) :
                   img[1][1] = create_gradient_map(audacity_palette, LutSize)[i]

\* C7: no rolloff unit, reduction step or column unit starts before every
\* frame unit has completed and the grid is built, and the grid is never
\* modified afterwards.
C7_StageBarrier ==
    [][/\ pc' \in {"rolloff", "render", "reduce", "columns", "done", "panicked"}
           => /\ stft_done' = 0..(NumTimeFrames(samples.len) - 1)
              /\ Len(magnitudes') = NumTimeFrames(samples.len)
              /\ \A i \in 1..Len(magnitudes') : magnitudes'[i] # <<>>
       /\ (rolloff_done' # {} \/ reduce_done' # {} \/ columns_done' # {})
           => pc' \in {"rolloff", "render", "reduce", "columns", "done", "panicked"}
       /\ pc \in {"rolloff", "render", "reduce", "columns", "done", "panicked"}
           => magnitudes' = magnitudes]_vars

C7_Witness ==
    /\ pc = "columns" /\ columns_done # {} /\ rolloff_done # {} /\ reduce_done # {}
    /\ NumTimeFrames(samples.len) >= 2

\* C11: for N >= 2048 samples the STFT result has num_time_frames =
\* floor((N - 2048) / 512) + 1, exactly that many magnitude rows, and
\* num_freq_bins = 1024 magnitudes in each row (a row stores its non-zero
\* bins, all of them among the bins 0..1023).
C11_GridDimensions ==
    (samples.len >= 2048 /\ pc # "start") =>
        LET n == (samples.len - 2048) \div 512 + 1
        IN /\ stft_dims.num_time_frames = n
           /\ stft_dims.num_freq_bins = 1024
           /\ Len(stft_out) = n
           /\ pc # "stft" =>
                 /\ Len(magnitudes) = n
                 /\ \A i \in 1..n :
                       /\ magnitudes[i] # <<>>
                       /\ DOMAIN magnitudes[i] \subseteq 0..(1024 - 1)

C11_Witness ==
    /\ pc = "done" /\ samples.len = 2048 + 512 + 511
    /\ stft_dims.num_time_frames = 2 /\ Len(magnitudes) = 2

\* sample_rate / 2 in the unit of the rolloff values
HalfRate == (sample_rate * HzDen) \div 2

\* C12: the rolloff frequency of every frame, and every entry of the
\* resampled series, lies in [0, nyquist] with nyquist = sample_rate / 2.
C12_RolloffWithinNyquist ==
    /\ \A i \in rolloff_done : rolloff_out[i + 1] >= 0 /\ rolloff_out[i + 1] <= HalfRate
    /\ \A x \in 1..Len(rolloff_frequencies.series) :
          /\ rolloff_frequencies.series[x] >= 0
          /\ rolloff_frequencies.series[x] <= HalfRate

C12_Witness ==
    /\ pc = "done" /\ compute_rolloff /\ Len(rolloff_out) >= 2
    /\ rolloff_out[1] > 0 /\ rolloff_out[1] < HalfRate /\ rolloff_out[2] = 0
    /\ Len(rolloff_frequencies.series) >= 2

\* the sum of the squared magnitudes of the bins 0..b of a row
SumSq(row, b) ==
    LET RECURSIVE Sum(_)
        Sum(S) == IF S = {} THEN 0
                  ELSE LET f == CHOOSE g \in S : TRUE
                       IN row[f] * row[f] + Sum(S \ {f})
    IN Sum({f \in DOMAIN row : f <= b})

\* bins 0..b hold at least 0.85 of the energy of the row
Holds85(row, b) == SumSq(row, b) * 100 >= SumSq(row, 1023) * 85

\* C13: for a frame whose total energy is at least 1e-10 the rolloff is
\* (b / 1024) * nyquist for the lowest bin b whose cumulative energy over
\* the bins 0..b is at least 0.85 of the total; it is nyquist only when no
\* bin reaches the threshold.
C13_RolloffIsFirstCrossing ==
    \A i \in rolloff_done :
        LET row == magnitudes[i + 1]
            out == rolloff_out[i + 1]
            step == HalfRate \div 1024
            b == out \div step
        IN SumSq(row, 1023) >= EnergyFloor =>
              \/ /\ b \in 0..1023 /\ b * step = out
                 /\ Holds85(row, b)
                 \* the cumulative energy never decreases, so no lower bin
                 \* holds the threshold when the bin just below does not
                 /\ b > 0 => ~Holds85(row, b - 1)
              \/ /\ out = HalfRate
                 /\ ~Holds85(row, 1023)

C13_Witness ==
    /\ pc = "done" /\ compute_rolloff /\ Len(rolloff_out) >= 2
    /\ SumSq(magnitudes[1], 1023) >= EnergyFloor
    /\ rolloff_out[1] = 512 * (HalfRate \div 1024)
    /\ ~Holds85(magnitudes[1], 511)

\* clamp(v, lo, hi)
Clamp(v, lo, hi) == IF v < lo THEN lo ELSE IF v > hi THEN hi ELSE v

SampledPos(cell) ==
    IF cell.f1 > cell.f0
    THEN <<cell.f0 * cell.bin_pos[3] + cell.bin_pos[2], cell.bin_pos[3]>>
    ELSE <<cell.f0, 1>>

RatGe(a, b) == a[1] * b[2] >= b[1] * a[2]

\* C15: in both scale modes and for every positive sample rate the bin
\* position read for row y does not increase with y (row 0 is the highest
\* frequency), and the bottom row reads bin 0 in linear mode and the bin
\* that holds 20 Hz in log mode.
C15_RowZeroIsHighest ==
    cellOut.done =>
        \A x \in 1..cellArgs.width :
            LET col == cellOut.cells[x]
                h == cellArgs.height
            IN /\ \A y \in 1..h : \A below \in y..h :
                      RatGe(SampledPos(col[y]), SampledPos(col[below]))
               /\ h > 0 =>
                     IF cellArgs.linear
                     THEN col[h].f0 = 0 /\ col[h].bin_pos[2] = 0
                     ELSE \* bin f spans [f, f + 1] * (sample_rate / 2) / 1024 Hz
                          /\ col[h].f0 * cellArgs.sample_rate <= 20 * 2 * 1024
                          /\ 20 * 2 * 1024 <= (col[h].f0 + 1) * cellArgs.sample_rate

\* C20: for every pixel (x, y) of the image, in both scale modes, the four
\* cells read are in bounds: t0 = clamp(floor(t), 0, num_time_frames - 1),
\* t1 = min(t0 + 1, num_time_frames - 1), f0 = clamp(floor(bin_pos), 0,
\* 1023), f1 = min(f0 + 1, 1023), so t0 <= t1 <= t0 + 1, f0 <= f1 <= f0 + 1.
C20_CellsInBounds ==
    cellOut.done =>
        \A x \in 0..(cellArgs.width - 1) : \A y \in 0..(cellArgs.height - 1) :
            LET cell == cellOut.cells[x + 1][y + 1]
                n == cellArgs.num_time_frames
                floor_t == (x * n) \div cellArgs.width
                floor_bin == cell.bin_pos[1]
            IN /\ cell.t0 = Clamp(floor_t, 0, n - 1)
               /\ cell.t1 = Min(cell.t0 + 1, n - 1)
               /\ cell.f0 = Clamp(floor_bin, 0, 1024 - 1)
               /\ cell.f1 = Min(cell.f0 + 1, 1024 - 1)
               /\ cell.t0 \in 0..(n - 1) /\ cell.t1 \in 0..(n - 1)
               /\ cell.f0 \in 0..(1024 - 1) /\ cell.f1 \in 0..(1024 - 1)
               /\ cell.t0 <= cell.t1 /\ cell.t1 <= cell.t0 + 1
               /\ cell.f0 <= cell.f1 /\ cell.f1 <= cell.f0 + 1

\* a pixel whose bin position lies beyond the last bin, and one inside
C20_Witness ==
    /\ cellOut.done /\ cellArgs.width = 2 /\ cellArgs.height = 2
    /\ ~cellArgs.linear /\ cellArgs.num_time_frames = 2
    /\ cellOut.cells[2][1].bin_pos[1] > 1023
    /\ cellOut.cells[2][1].f0 = 1023 /\ cellOut.cells[2][1].f1 = 1023
    /\ cellOut.cells[2][1].t0 = 1 /\ cellOut.cells[2][1].t1 = 1

\* C16: progress reporting is advisory.  The grid, the rolloff series and
\* the image returned are those determined by the samples, the sample rate,
\* the dimensions, the palette, the scale mode and the rolloff flag alone,
\* whatever quiet is and whatever the progress bars count (overshooting
\* increments included), and while the frame units run, which is where the
\* bar is incremented concurrently, a frame unit or the join can always
\* take its step.
C16_ProgressIsAdvisory ==
    /\ pc = "done" =>
          /\ magnitudes = [i \in 1..NumTimeFrames(samples.len) |-> FrameMags(samples, i - 1)]
          /\ rolloff_frequencies =
                 IF compute_rolloff THEN [some |-> TRUE, series |-> SeqRolloff]
                 ELSE [some |-> FALSE, series |-> <<>>]
          /\ img = SeqImage
    /\ pc = "stft" => ENABLED (StftReturn \/ \E i \in Frames : StftFrame(i))

C16_Witness ==
    /\ pc = "done" /\ ~quiet /\ width >= 1 /\ height >= 1
    /\ pb.stft > NumTimeFrames(samples.len) /\ NumTimeFrames(samples.len) >= 2
    /\ pb.finished = {"STFT", "Render"}

\* the buffer with every sample scaled by num / den
ScaledBuffer(s, num, den) ==
    [len |-> s.len, amp |-> [b \in DOMAIN s.amp |-> (s.amp[b] * num) \div den]]

\* the grid, the peak and the image of a buffer s under the call's other
\* arguments, computed in index order
GridOf(s) == [i \in 1..NumTimeFrames(s.len) |-> FrameMags(s, i - 1)]

RECURSIVE PeakOf(_, _)
PeakOf(grid, n) == IF n = 0 THEN 0 ELSE Max(PeakOf(grid, n - 1), FrameMax(grid[n]))

ImageOf(s) ==
    LET grid == GridOf(s)
    IN [x \in 1..width |->
          ColumnPixels(grid, PeakOf(grid, Len(grid)), Gradient, x - 1, width, height,
                       sample_rate, linear)]

\* C17: scaling every sample by a constant k with 1e-6 <= k < 1 gives a
\* pixel-identical image.  Stated for k = 1/10 and buffers whose samples
\* are multiples of 20 units, for which the scaled grid is exactly one
\* tenth of the grid.
C17_ScaleInvariantImage ==
    (pc = "done" /\ \A b \in DOMAIN samples.amp : samples.amp[b] % 20 = 0)
        => img = ImageOf(ScaledBuffer(samples, 1, 10))

\* the value main is to use for an option: the command line's when the
\* flag is given, the config file's otherwise
Chosen(flag, from_file) == IF flag.some THEN flag.val ELSE from_file

\* the palette a config file names, audacity when the name is unknown
NamedPalette(n) ==
    IF ToLowercase(n) = <<"m", "a", "g", "m", "a">> THEN "Magma"
    ELSE IF ToLowercase(n) = <<"v", "i", "r", "i", "d", "i", "s">> THEN "Viridis"
    ELSE IF ToLowercase(n) = <<"i", "n", "f", "e", "r", "n", "o">> THEN "Inferno"
    ELSE IF ToLowercase(n) = <<"g", "r", "a", "y", "s", "c", "a", "l", "e">> THEN "Grayscale"
    ELSE "Audacity"

\* C18: for each of width, height, log scale, rolloff, verbose and palette,
\* main uses the command-line value when the flag is given and the value of
\* the config file's [defaults] otherwise; an unknown palette name in the
\* config resolves to audacity.
C18_FlagsOverrideConfig ==
    (merged.done /\ loaded.ok) =>
        LET d == loaded.config.defaults
            palette == Chosen(cli.palette, NamedPalette(d.palette))
        IN /\ merged.width = Chosen(cli.width, d.width)
           /\ merged.height = Chosen(cli.height, d.height)
           /\ merged.use_log = Chosen(cli.log, d.log_scale)
           /\ merged.linear = ~Chosen(cli.log, d.log_scale)
           /\ merged.use_rolloff = Chosen(cli.rolloff, d.rolloff)
           /\ merged.use_verbose = Chosen(cli.verbose, d.verbose)
           /\ merged.palette = palette
           /\ merged.stops = (CASE palette = "Magma" -> magma_palette
                                [] palette = "Viridis" -> viridis_palette
                                [] palette = "Inferno" -> inferno_palette
                                [] palette = "Grayscale" -> grayscale_palette
                                [] palette = "Audacity" -> audacity_palette)

\* a flag that turns off what the config file turns on, a flag that is
\* absent, and an unknown palette name
C18_Witness ==
    /\ merged.done /\ loaded.ok
    /\ cli.log = Some(FALSE) /\ loaded.config.defaults.log_scale /\ ~merged.use_log
    /\ cli.width = Some(1) /\ merged.width = 1
    /\ ~cli.height.some /\ loaded.config.defaults.height = 3 /\ merged.height = 3
    /\ ~cli.palette.some /\ loaded.config.defaults.palette = <<"g", "r", "a", "y">>
    /\ merged.palette = "Audacity"

\* C19: when the config file defines a custom gradient under [colors]
\* stops (and no palette is chosen on the command line), main goes on to
\* render the spectrogram and the color bar with those stops.
C19_CustomStopsUsed ==
    (merged.done /\ loaded.ok /\ ~cli.palette.some
        /\ loaded.config.colors.stops = CustomStops)
        => merged.stops = CustomStops

\* the buffer without its first k runs of 512 samples
DropRuns(s, k) ==
    [len |-> s.len - k * 512,
     amp |-> [b \in 0..(NumBlocks(s.len) - 1 - k) |-> s.amp[b + k]]]

\* C23: for a buffer of N >= 2048 samples, every frame i below
\* num_time_frames reads the slice from i * 512 to i * 512 + 2048, which
\* lies within the buffer, and a completed frame's row is the row of those
\* 2048 samples (that of frame 0 of the buffer with its first i * 512
\* samples dropped); a frame at index num_time_frames would not fit.
C23_FramesTileTheBuffer ==
    (pc # "start" /\ samples.len >= 2048) =>
        /\ \A i \in 0..(stft_dims.num_time_frames - 1) :
              /\ FrameSlice(i).start = i * 512
              /\ FrameSlice(i).end = i * 512 + 2048
              /\ FrameSlice(i).end <= samples.len
              /\ i \in stft_done => stft_out[i + 1] = FrameMags(DropRuns(samples, i), 0)
        /\ stft_dims.num_time_frames * 512 + 2048 > samples.len

\* two frames done over a buffer that the second frame does not reach the
\* end of, with different rows
C23_Witness ==
    /\ pc = "stft" /\ samples.len = 2048 + 512 + 511
    /\ stft_done = {0, 1} /\ stft_out[1] # stft_out[2]

\* the magnitudes of the four cells pixel (x, y) interpolates
Neighbours(x, y) ==
    LET tc == TimeCell(x, width, Len(magnitudes))
        fc == FreqCell(BinPos(y, height, sample_rate, linear))
    IN {RowAt(magnitudes[t + 1], f) : t \in {tc.t0, tc.t1}, f \in {fc.f0, fc.f1}}

\* pixel (x, y) lies exactly on a cell that holds the global peak
OnPeakCell(x, y) ==
    LET tc == TimeCell(x, width, Len(magnitudes))
        bp == BinPos(y, height, sample_rate, linear)
    IN /\ tc.fract = 0 /\ bp[2] = 0
       /\ RowAt(magnitudes[tc.t0 + 1], FreqCell(bp).f0) = global_max_mag

C25_ColorBarFits ==
    (finalOut.done /\ finalArgs.spectrogram.height >= 1) =>
        /\ finalArgs.font = "some" =>
              /\ finalOut.status = "ok" /\ ~finalOut.underflow
              /\ finalOut.bar_height = U32(finalArgs.spectrogram.height - 40)
              /\ DOMAIN finalOut.gradient = 0..(finalArgs.spectrogram.height - 40 - 1)
              /\ finalOut.image.width = finalArgs.spectrogram.width + 70
              /\ finalOut.image.height = finalArgs.spectrogram.height
        /\ finalArgs.font = "none" =>
              finalOut.status = "ok" /\ finalOut.image = finalArgs.spectrogram

\* C22: with a config path, load_config writes the default file exactly
\* when no file exists there.  A file that exists is never written and is
\* left as it was.  A missing file is written after the directory has been
\* created where that was missing, and is then read and parsed: when
\* load_config returns Ok the file holds the default text and the config
\* is the parse of it; it stays unwritten only when creating the directory
\* or the write itself fails, and load_config then fails.  When
\* load_config fails, main goes on with Config::default().
C22_DefaultConfigOnlyWhenMissing ==
    /\ (cfgOut.done /\ cfgFs.path) =>
          LET calls == cfgLog.calls
              wrote == \E k \in 1..Len(calls) : calls[k] = "write"
          IN /\ wrote => ~cfgLog.before.exists
             /\ cfgLog.before.exists => cfgFs.file = cfgLog.before
             /\ \A k \in 1..Len(calls) :
                   calls[k] = "create_dir_all" => (k = 1 /\ cfgFs.dir = cfgFs.mkdir_ok)
             /\ (~cfgLog.before.exists /\ ~wrote) =>
                   (~cfgOut.ok /\ ~cfgFs.dir /\ ~cfgFs.mkdir_ok)
             /\ (~cfgLog.before.exists /\ wrote /\ ~cfgFs.file.exists) =>
                   (~cfgOut.ok /\ ~cfgFs.write_ok)
             /\ (~cfgLog.before.exists /\ cfgOut.ok) =>
                   /\ cfgFs.dir /\ cfgFs.file = [exists |-> TRUE, text |-> DefaultText]
                   /\ calls[Len(calls) - 1] = "write"
                   /\ calls[Len(calls)] = "read_to_string"
                   /\ cfgOut.config = ParseConfig(DefaultText).config
    /\ cfgMain.done =>
          /\ cfgOut.done
          /\ cfgMain.config = IF cfgOut.ok THEN cfgOut.config ELSE ConfigDefault

\* a first run: the directory and the file are created, the file is
\* parsed, and main has its config
C22_Witness ==
    /\ cfgMain.done /\ cfgOut.ok /\ ~cfgLog.before.exists
    /\ cfgLog.calls = <<"create_dir_all", "write", "read_to_string">>
    /\ cfgFs.file = [exists |-> TRUE, text |-> DefaultText]
    /\ cfgMain.config = ConfigDefault

\* packet p is of the selected track and was decoded into a buffer
Decoded(p, track_id) ==
    p.kind = "packet" /\ p.track = track_id /\ p.decode = "ok"

\* one sample per frame of the buffer: the channel values of the frame,
\* converted to f32, summed and divided by their number
MonoFrames(buf) ==
    LET channels == Len(buf.planes)
        value(c, i) == IF buf.format = "U8" THEN (buf.planes[c][i] - 128) * 256
                       ELSE buf.planes[c][i]
        RECURSIVE Total(_, _)
        Total(c, i) == IF c = 0 THEN 0 ELSE Total(c - 1, i) + value(c, i)
    IN [i \in 1..Len(buf.planes[1]) |-> <<Total(channels, i), channels>>]

\* the samples due after the first n events
RECURSIVE SamplesDue(_, _, _)
SamplesDue(events, n, track_id) ==
    IF n = 0 THEN <<>>
    ELSE SamplesDue(events, n - 1, track_id)
         \o (IF Decoded(events[n], track_id) THEN MonoFrames(events[n].buf) ELSE <<>>)

\* C26: for every packet sequence the reader delivers, the sample buffer
\* holds, in packet order, one mono sample (the mean over the channels)
\* per frame of each packet of the selected track that decoded; packets of
\* other tracks and packets that fail with DecodeError add nothing and do
\* not abort the decoding (an abort in the loop comes from the reader's own
\* error or from a packet of the selected track that did not fail with
\* DecodeError); the loop ends with success on UnexpectedEof, after every
\* packet; and duration_secs is samples.len() / sample_rate.
C26_OneMonoSamplePerFrame ==
    /\ decPc \in {"loop", "finish", "ok"} =>
          decSamples = SamplesDue(decIn.events, decPos, decOut.track_id)
    /\ decPc \in {"finish", "ok"} =>
          decPos = Len(decIn.events) /\ decIn.end = "UnexpectedEof"
    /\ decPc = "ok" => decOut.duration_secs = <<Len(decSamples), decOut.sample_rate>>
    /\ (decPc = "err" /\ decIn.open = "ok" /\ FindTrack(decIn.tracks, 1) # 0) =>
          \/ /\ decPos = Len(decIn.events) /\ decIn.end # "UnexpectedEof"
             /\ decOut.error = decIn.end
          \/ /\ decPos > 0
             /\ LET last == decIn.events[decPos]
                IN /\ last.kind = "packet" /\ last.track = decOut.track_id
                   /\ last.decode # "DecodeError"
                   /\ last.decode = "ok" => last.buf.format \notin SupportedFormats

\* a file whose first track has no codec: a packet of that track, a packet
\* of the audio track that fails with DecodeError and a stereo packet of
\* two frames that decodes, then the end of the stream
C26_Witness ==
    /\ decPc = "ok" /\ decOut.track_id = 1 /\ decOut.sample_rate = 44100
    /\ decIn.events = <<Packet(0, "ok", StereoS16), Packet(1, "DecodeError", NoBuf),
                         Packet(1, "ok", StereoU8)>>
    /\ decSamples = << <<0 - 512, 2>>, <<2048, 2>> >>
    /\ decOut.duration_secs = <<2, 44100>>

\* C21: for every pixel the colour index lies in 0..1023, so the pixel is
\* one entry of the LUT and the lookup is in range: a computed column holds
\* LUT[index] for each of its rows; and in the returned image every one of
\* the width * height pixels has been written exactly once, with that entry.
C21_EveryPixelOneLutEntry ==
    pc \in {"columns", "done"} =>
        \A x \in 0..(width - 1) : \A y \in 0..(height - 1) :
            LET idx == PixelIdx(magnitudes, global_max_mag, x, y, width, height,
                                sample_rate, linear)
            IN /\ idx \in 0..1023
               /\ \A k \in 1..Len(columns) :
                      (columns[k].x = x /\ columns[k].col_pixels # <<>>)
                          => columns[k].col_pixels[y + 1] = Gradient[idx]
               /\ pc = "done" =>
                      /\ PutCount(columns, x, y) = 1
                      /\ img[x + 1][y + 1] = Gradient[idx]

\* an image with a pixel below the dB window (index 0), one at its top
\* (index 1023) and one strictly inside
C21_Witness ==
    /\ pc = "done" /\ width = 3 /\ height = 2
    /\ \E x \in 0..2 : \E y \in 0..1 :
           PixelIdx(magnitudes, global_max_mag, x, y, width, height, sample_rate, linear) = 0
    /\ \E x \in 0..2 : \E y \in 0..1 :
           PixelIdx(magnitudes, global_max_mag, x, y, width, height, sample_rate, linear) = 1023
    /\ \E x \in 0..2 : \E y \in 0..1 :
           PixelIdx(magnitudes, global_max_mag, x, y, width, height, sample_rate, linear)
               \in 1..1022

\* the stops of the list in sorted order, and their parsed colours
SortedLutStops == SortStops(lutStops)
HasStopAt(p) == \E k \in 1..Len(lutStops) : lutStops[k].position = p
FirstStopAt(p) ==
    SortedLutStops[CHOOSE k \in 1..Len(SortedLutStops) :
                      /\ SortedLutStops[k].position = p
                      /\ \A j \in 1..(k - 1) : SortedLutStops[j].position # p]

C9_OutsideClampsToEndpoint ==
    (lutOut.done /\ ~lutOut.panic /\ lutStops # <<>> /\ lutSize >= 2)
        => \A i \in 0..(lutSize - 1) :
              /\ i * PosScale < SortedLutStops[1].position * (lutSize - 1)
                   => lutOut.map[i] = hex_to_rgb(SortedLutStops[1].color)
              /\ i * PosScale > SortedLutStops[Len(SortedLutStops)].position * (lutSize - 1)
                   => lutOut.map[i] = hex_to_rgb(SortedLutStops[Len(SortedLutStops)].color)

\* exactly 6 hexadecimal digits after the leading '#' are stripped
SixHexDigits(hex) ==
    LET h == TrimStartHash(hex)
    IN Len(h) = 6 /\ \A i \in 1..6 : IsHexDigit(h[i])

\* C10: hex_to_rgb returns black for every string that is not exactly 6
\* hexadecimal digits after stripping '#', and never panics.
C10_MalformedIsBlack ==
    hexOut.done =>
        /\ ~hexOut.panic
        /\ ~SixHexDigits(hexIn) => hexOut.rgb = <<0, 0, 0>>

====
